---- MODULE Spec2Model ----
(***************************************************************************)
(* Verification model of organism_tractability:                            *)
(*   utils/rate_limiter.py    RateLimiter, ConcurrencyLimiter,             *)
(*                            retry_with_backoff                           *)
(*   utils/FirecrawlClient.py FirecrawlClient.extract                      *)
(*   db/features/pipeline.py  FeaturesPipeline                             *)
(*   db/feature_metadata/feature_metadata_service.py                       *)
(* Each component has its own specification (SpecRL, SpecCL, SpecRetry,    *)
(* SpecFetch); the variables of the other components are parked.           *)
(***************************************************************************)
EXTENDS Integers, Sequences, FiniteSets, TLC

VARIABLES
    \* ---- RateLimiter (rate_limiter.py:24-65) ----
    clock,          \* time.time(), in ticks
    min_interval,   \* self.min_interval, in ticks
    last_call,      \* self._last_call
    lock,           \* self._lock: 0 = free, else the thread holding it
    wpc,            \* position of each thread in wait()
    wake,           \* instant at which time.sleep(wait_time) may return
    wcalls,         \* number of wait() calls each thread has completed
    wstart,         \* instant at which each thread entered its first wait()
    started,        \* number of wait() calls made so far, all threads
    grants,         \* number of assignments to _last_call made by wait()
    minGrantGap,    \* smallest distance between two consecutive such assignments
    lastReturn,     \* instant of the latest return from wait(), any thread
    minReturnGap,   \* smallest distance between two consecutive returns
    \* ---- ConcurrencyLimiter (rate_limiter.py:68-99) + FirecrawlClient.extract ----
    max_concurrent, \* constructor argument
    semaphore,      \* value of self._semaphore
    cpc,            \* position of each thread in FirecrawlClient.extract
    exc,            \* exception in flight in each thread's `with` scope
    outcome,        \* how each thread's last extract() call ended
    ccalls,         \* number of extract() calls made so far, all threads
    acquired,       \* number of semaphore.acquire() calls that returned
    released,       \* number of semaphore.release() calls
    \* ---- retry_with_backoff (rate_limiter.py:102-132) ----
    max_attempts,   \* argument max_attempts
    min_wait,       \* argument min_wait
    max_wait,       \* argument max_wait
    retry_on,       \* argument retry_on: a set of exception types
    script,         \* what the wrapped operation does on its i-th invocation
    attempt_number, \* retry_state.attempt_number
    tpc,            \* position of the wrapped call
    history,        \* outcome of every invocation made so far, in order
    sleeps,         \* backoff delays slept so far, in order
    tresult,        \* what the wrapped call delivered to its caller
    \* ---- FeaturesPipeline.fetch_features_for_organism (pipeline.py:132-202) ----
    yaml_features,  \* the "features" list of feature_metadata.yaml
    fpc,            \* position of the fetch
    organism_id,    \* argument organism_id
    source_ids,     \* argument source_ids (NoneValue when omitted)
    sources_to_process, \* keys of the dict _get_sources_to_process returned, in order
    si,             \* index of the source being processed
    features_metadata,  \* the list the catalog returned for that source
    fi,             \* index of the feature being processed
    rows,           \* the local list rows
    retval,         \* the list returned to the caller (NoneValue: nothing returned)
    ferror,         \* the exception that left fetch_features_for_organism
    catalogLookups, \* source ids passed to get_feature_metadata_by_source, in order
    adapterCalls,   \* adapter invocations made, in order
    \* ---- FeaturesPipeline.run_csv (pipeline.py:57-130) ----
    input_csv,      \* the input file: its header and its lines
    csv_source_ids, \* argument source_ids of run_csv
    rpc,            \* position of run_csv
    organisms,      \* the local list organisms
    oi,             \* index of the organism whose features are fetched
    out_file,       \* the output file: opened or not, and the records written
    rerror,         \* the exception that left run_csv
    fetched,        \* what each fetch_features_for_organism call returned, in order
    \* ---- FeatureMetadataService (feature_metadata_service.py:41-89) ----
    feature_dicts,  \* data.get("features", []) of the YAML definition
    cat_op,         \* the latest call made to the service
    cat_out,        \* what that call delivered
    \* ---- module-level clients of the adapters (sources/*/*.py, utils/*Client.py) ----
    environ,        \* names of the environment variables that are set and non-empty
    imported,       \* number of adapter modules imported, their client constructed
    gpc,            \* position of the process: importing, ready, failed
    gerror,         \* the exception that ended the process
    sent,           \* outbound requests sent so far, in order
    \* ---- an adapter's outbound call (sources/*/client.py, utils/*Client.py) ----
    ad_source,      \* the source whose adapter is invoked
    remote,         \* how the remote service behaves during this invocation
    ad_pc,          \* position of the adapter
    ad_out,         \* what the adapter delivered to fetch_features_for_organism
    \* ---- the fetched_object field of an output row (pipeline.py:120-130) ----
    jobj,           \* r["fetched_object"] of the row being written
    jother,         \* a map value-equal to it, written in another row
    jtext,          \* the fetched_object fields written for the two, as token lists
    jparsed,        \* what a reader of the output parses out of the first field
    jpc,            \* position: a row to write, written, read back
    \* ---- construction of limiters (rate_limiter.py:41-51, 82-90) ----
    limiters,       \* the limiter instances constructed so far, in order
    lim_errors,     \* the constructor calls that raised, in order
    \* ---- catalog lookups over the life of a process (feature_metadata_service.py) ----
    cat_log,        \* every get_feature_metadata_by_source call and its answer, in order
    \* ---- a fetch whose adapters retry their network call (pipeline.py:172-200) ----
    call_scripts,   \* for each adapter invocation started, what its network call does
    \* ---- HTTP requests of a client behind its RateLimiter (sources/*/client.py) ----
    nreq,           \* per thread, the HTTP requests it has sent
    tries,          \* per thread, the attempts made so far by its current call
    rq_pc,          \* per thread: ready, or in the backoff sleep of the retry wrapper
    rq_wake,        \* per thread, the instant its backoff sleep ends
    lastRequest,    \* the instant of the latest request, of whichever thread
    minRequestGap,  \* the smallest time between two consecutive requests
    \* ---- ATCCClient calls under retry_with_backoff (sources/atcc/client.py) ----
    at_pc,          \* per worker, position of its search_products/get_product call
    at_tries,       \* per worker, the attempts its current call has finished
    at_total        \* per worker, the attempts it has finished, all calls together

rlVars == <<clock, min_interval, last_call, lock, wpc, wake, wcalls,
            wstart, started, grants, minGrantGap, lastReturn, minReturnGap>>
clVars == <<max_concurrent, semaphore, cpc, exc, outcome, ccalls, acquired, released>>
rtVars == <<max_attempts, min_wait, max_wait, retry_on, script, attempt_number, tpc,
            history, sleeps, tresult>>
fpVars == <<yaml_features, fpc, organism_id, source_ids, sources_to_process, si,
            features_metadata, fi, rows, retval, ferror, catalogLookups, adapterCalls>>
csvVars == <<input_csv, csv_source_ids, rpc, organisms, oi, out_file, rerror, fetched>>
catVars == <<feature_dicts, cat_op, cat_out>>
cfgVars == <<environ, imported, gpc, gerror, sent>>
adVars == <<ad_source, remote, ad_pc, ad_out>>
jsVars == <<jobj, jother, jtext, jparsed, jpc>>
limVars == <<limiters, lim_errors>>
rdVars == <<cat_log>>
frVars == <<call_scripts>>
rqVars == <<nreq, tries, rq_pc, rq_wake, lastRequest, minRequestGap>>
atVars == <<at_pc, at_tries, at_total>>
vars == <<rlVars, clVars, rtVars, fpVars, csvVars, catVars, cfgVars, adVars, jsVars, limVars, rdVars, frVars, rqVars, atVars>>
notRL == <<clVars, rtVars, fpVars, csvVars, catVars, cfgVars, adVars, jsVars, limVars, rdVars, frVars, rqVars, atVars>>
notCL == <<rlVars, rtVars, fpVars, csvVars, catVars, cfgVars, adVars, jsVars, limVars, rdVars, frVars, rqVars, atVars>>
notRT == <<rlVars, clVars, fpVars, csvVars, catVars, cfgVars, adVars, jsVars, limVars, rdVars, frVars, rqVars, atVars>>
notFP == <<rlVars, clVars, rtVars, csvVars, catVars, cfgVars, adVars, jsVars, limVars, rdVars, frVars, rqVars, atVars>>
notCsv == <<rlVars, clVars, rtVars, catVars, cfgVars, adVars, jsVars, limVars, rdVars, frVars, rqVars, atVars>>
notCat == <<rlVars, clVars, rtVars, fpVars, csvVars, cfgVars, adVars, jsVars, limVars, rdVars, frVars, rqVars, atVars>>
notCfg == <<rlVars, clVars, rtVars, fpVars, csvVars, catVars, adVars, jsVars, limVars, rdVars, frVars, rqVars, atVars>>
notAd == <<rlVars, clVars, fpVars, csvVars, catVars, cfgVars, jsVars, limVars, rdVars, frVars, rqVars, atVars>>
notJs == <<rlVars, clVars, rtVars, fpVars, csvVars, catVars, cfgVars, adVars, limVars, rdVars, frVars, rqVars, atVars>>
notLim == <<rlVars, clVars, rtVars, fpVars, csvVars, catVars, cfgVars, adVars, jsVars, rdVars, frVars, rqVars, atVars>>
notRd == <<rlVars, clVars, rtVars, fpVars, csvVars, cfgVars, adVars, jsVars, limVars, frVars, rqVars, atVars>>
notFr == <<rlVars, clVars, csvVars, catVars, cfgVars, adVars, jsVars, limVars, rdVars, rqVars, atVars>>
notRq == <<clVars, rtVars, fpVars, csvVars, catVars, cfgVars, adVars, jsVars, limVars, rdVars, frVars, atVars>>
notAt == <<rlVars, rtVars, fpVars, csvVars, catVars, cfgVars, adVars, jsVars, limVars, rdVars, frVars, rqVars>>

----------------------------------------------------------------------------
\* Bounds of the model
NumThreads == 2          \* threads sharing one RateLimiter
MaxWaitCalls == 3        \* wait() calls made in a run, all threads together
TicksPerSecond == 2      \* clock resolution
Horizon == 3             \* ticks the clock may advance
NumWorkers == 3          \* threads sharing the ConcurrencyLimiter
MaxPool == 2             \* largest max_concurrent tried
MaxExtractCalls == 4     \* extract() calls made in a run, all threads together
MaxAttempts == 3         \* largest max_attempts tried
MaxWaitBound == 3        \* largest max_wait tried, in seconds
MaxCatalog == 3          \* largest number of catalog entries tried
MaxSourceIds == 2        \* longest source_ids list tried
MaxCsvLines == 2         \* most lines after the header in an input CSV
MaxCsvFeatures == 2      \* largest catalog tried under run_csv
MaxCsvSourceIds == 1     \* longest source_ids list passed to run_csv
MaxDefinition == 3       \* most entries in a catalog definition, valid or not
MaxRequests == 3         \* outbound requests sent in a run, all sources together
MaxJsonInt == 2          \* largest integer tried as a value in a fetched_object
MaxLookups == 3          \* catalog lookups made in one process
MaxLimiters == 3         \* constructor calls made in a run
MaxLimiterArg == 2       \* constructor arguments tried: -MaxLimiterArg..MaxLimiterArg

Threads == 1..NumThreads
Workers == 1..NumWorkers

\* time.time() at process start: the epoch clock is far beyond any min_interval
Epoch == TicksPerSecond
MaxClock == Epoch + Horizon
\* gaps are recorded up to one second, the largest min_interval; this value
\* also stands for "no gap observed yet"
NoGap == TicksPerSecond

\* calls_per_second values whose interval is a whole number of ticks
Rates == {r \in 1..TicksPerSecond : TicksPerSecond % r = 0}

Min(a, b) == IF a <= b THEN a ELSE b
Max(a, b) == IF a >= b THEN a ELSE b

----------------------------------------------------------------------------
\* Parked values of the components a specification does not exercise
ParkAt ==
    /\ at_pc = <<>> /\ at_tries = <<>> /\ at_total = <<>>

ParkRq ==
    /\ nreq = <<>> /\ tries = <<>> /\ rq_pc = <<>> /\ rq_wake = <<>>
    /\ lastRequest = 0 /\ minRequestGap = 0

ParkFr ==
    /\ call_scripts = <<>>

ParkRd ==
    /\ cat_log = <<>>

ParkLim ==
    /\ limiters = <<>> /\ lim_errors = <<>>

ParkJs ==
    /\ jobj = <<>> /\ jother = <<>> /\ jtext = <<>> /\ jparsed = <<>> /\ jpc = "parked"

ParkRL ==
    /\ clock = 0 /\ min_interval = 0 /\ last_call = 0 /\ lock = 0
    /\ wpc = <<>> /\ wake = <<>> /\ wcalls = <<>>
    /\ wstart = <<>> /\ started = 0 /\ grants = 0
    /\ minGrantGap = 0 /\ lastReturn = 0 /\ minReturnGap = 0

ParkCL ==
    /\ max_concurrent = 0 /\ semaphore = 0 /\ cpc = <<>> /\ exc = <<>>
    /\ outcome = <<>> /\ ccalls = 0 /\ acquired = 0 /\ released = 0

ParkRT ==
    /\ max_attempts = 0 /\ min_wait = 0 /\ max_wait = 0 /\ retry_on = {}
    /\ script = <<>> /\ attempt_number = 0 /\ tpc = "parked" /\ history = <<>>
    /\ sleeps = <<>> /\ tresult = <<>>

ParkFP ==
    /\ yaml_features = <<>> /\ fpc = "parked" /\ organism_id = 0 /\ source_ids = <<>>
    /\ sources_to_process = <<>> /\ si = 0 /\ features_metadata = <<>> /\ fi = 0
    /\ rows = <<>> /\ retval = <<>> /\ ferror = <<>> /\ catalogLookups = <<>>
    /\ adapterCalls = <<>>

ParkCsv ==
    /\ input_csv = <<>> /\ csv_source_ids = <<>> /\ rpc = "parked" /\ organisms = <<>>
    /\ oi = 0 /\ out_file = <<>> /\ rerror = <<>> /\ fetched = <<>>

ParkCat == feature_dicts = <<>> /\ cat_op = <<>> /\ cat_out = <<>>

ParkAd == ad_source = "" /\ remote = "" /\ ad_pc = "parked" /\ ad_out = <<>>

ParkCfg ==
    /\ environ = {} /\ imported = 0 /\ gpc = "parked" /\ gerror = <<>> /\ sent = <<>>

----------------------------------------------------------------------------
\* RateLimiter

\* what a constructor call delivers: the instance, or the exception it raised
Constructed(obj) == [ok |-> TRUE, obj |-> obj, error |-> "none"]
CtorRaised(e) == [ok |-> FALSE, obj |-> [a |-> 0, b |-> 0, c |-> 0], error |-> e]

\* RateLimiter(calls_per_second): ValueError unless calls_per_second > 0, else
\* min_interval = 1.0 / calls_per_second, _last_call = 0.0, a free lock
RateLimiterNew(calls_per_second) ==
    IF calls_per_second <= 0
       THEN CtorRaised("ValueError")
       ELSE Constructed([a |-> TicksPerSecond \div calls_per_second, b |-> 0, c |-> 0])

\* RateLimiter.__init__ returning an instance: the fields it sets
RateLimiterInit(calls_per_second) ==
    LET r == RateLimiterNew(calls_per_second)
    IN  /\ r.ok
        /\ min_interval = r.obj.a
        /\ last_call = r.obj.b
        /\ lock = r.obj.c

InitRL ==
    /\ \E cps \in Rates : RateLimiterInit(cps)
    /\ clock = Epoch
    /\ wpc = [t \in Threads |-> "idle"]
    /\ wake = [t \in Threads |-> 0]
    /\ wcalls = [t \in Threads |-> 0]
    /\ wstart = [t \in Threads |-> -1]
    /\ started = 0
    /\ grants = 0
    /\ minGrantGap = NoGap
    /\ lastReturn = -1
    /\ minReturnGap = NoGap

\* a thread calls limiter.wait()
CallWait(t) ==
    /\ wpc[t] = "idle"
    /\ started < MaxWaitCalls
    /\ started' = started + 1
    /\ wpc' = [wpc EXCEPT ![t] = "acquire"]
    /\ wstart' = [wstart EXCEPT ![t] = IF wstart[t] = -1 THEN clock ELSE @]
    /\ UNCHANGED <<clock, min_interval, last_call, lock, wake, wcalls,
                   grants, minGrantGap, lastReturn, minReturnGap>>
    /\ UNCHANGED notRL

\* mutant: the lock is taken without waiting for it to be free
AcquireLockNoMutex(t) ==
    /\ wpc[t] = "acquire"
    /\ lock' = t
    /\ wpc' = [wpc EXCEPT ![t] = "locked"]
    /\ UNCHANGED <<clock, min_interval, last_call, wake, wcalls, wstart,
                   started, grants, minGrantGap, lastReturn, minReturnGap>>
    /\ UNCHANGED notRL

\* `with self._lock:` entry, blocks while another thread holds the lock
AcquireLock(t) ==
    /\ wpc[t] = "acquire"
    /\ lock = 0
    /\ lock' = t
    /\ wpc' = [wpc EXCEPT ![t] = "locked"]
    /\ UNCHANGED <<clock, min_interval, last_call, wake, wcalls, wstart,
                   started, grants, minGrantGap, lastReturn, minReturnGap>>
    /\ UNCHANGED notRL

\* wait_time = self.min_interval - (now - self._last_call), for now = time.time()
WaitTime(now) == min_interval - (now - last_call)

\* now = time.time(); wait_time > 0: time.sleep(wait_time) starts
StartSleep(t) ==
    /\ wpc[t] = "locked"
    /\ WaitTime(clock) > 0
    /\ wake' = [wake EXCEPT ![t] = clock + WaitTime(clock)]
    /\ wpc' = [wpc EXCEPT ![t] = "sleeping"]
    /\ UNCHANGED <<clock, min_interval, last_call, lock, wcalls, wstart,
                   started, grants, minGrantGap, lastReturn, minReturnGap>>
    /\ UNCHANGED notRL

\* now = time.time(); wait_time > 0 is false: no sleep
SkipSleep(t) ==
    /\ wpc[t] = "locked"
    /\ WaitTime(clock) <= 0
    /\ wpc' = [wpc EXCEPT ![t] = "stamp"]
    /\ UNCHANGED <<clock, min_interval, last_call, lock, wake, wcalls,
                   wstart, started, grants, minGrantGap, lastReturn,
                   minReturnGap>>
    /\ UNCHANGED notRL

\* time.sleep returns, never before the requested time has elapsed
EndSleep(t) ==
    /\ wpc[t] = "sleeping"
    /\ clock >= wake[t]
    /\ wpc' = [wpc EXCEPT ![t] = "stamp"]
    /\ UNCHANGED <<clock, min_interval, last_call, lock, wake, wcalls,
                   wstart, started, grants, minGrantGap, lastReturn,
                   minReturnGap>>
    /\ UNCHANGED notRL

\* mutant: wait() returns without leaving the `with self._lock:` block
StampKeepLock(t) ==
    /\ wpc[t] = "stamp"
    /\ last_call' = clock
    /\ grants' = grants + 1
    /\ minGrantGap' = IF grants = 0 THEN minGrantGap
                      ELSE Min(minGrantGap, Min(NoGap, clock - last_call))
    /\ wake' = [wake EXCEPT ![t] = 0]
    /\ wpc' = [wpc EXCEPT ![t] = "return"]
    /\ UNCHANGED <<clock, min_interval, lock, wcalls, wstart,
                   started, lastReturn, minReturnGap>>
    /\ UNCHANGED notRL

\* self._last_call = time.time(), then the `with self._lock:` block is left and
\* the lock released
Stamp(t) ==
    /\ wpc[t] = "stamp"
    /\ last_call' = clock
    /\ grants' = grants + 1
    /\ minGrantGap' = IF grants = 0 THEN minGrantGap
                      ELSE Min(minGrantGap, Min(NoGap, clock - last_call))
    /\ lock' = IF lock = t THEN 0 ELSE lock
    /\ wake' = [wake EXCEPT ![t] = 0]
    /\ wpc' = [wpc EXCEPT ![t] = "return"]
    /\ UNCHANGED <<clock, min_interval, wcalls, wstart,
                   started, lastReturn, minReturnGap>>
    /\ UNCHANGED notRL

\* wait() returns to its caller
ReturnWait(t) ==
    /\ wpc[t] = "return"
    /\ wcalls' = [wcalls EXCEPT ![t] = @ + 1]
    /\ lastReturn' = clock
    /\ minReturnGap' = IF lastReturn = -1 THEN minReturnGap
                       ELSE Min(minReturnGap, Min(NoGap, clock - lastReturn))
    /\ wpc' = [wpc EXCEPT ![t] = "idle"]
    /\ UNCHANGED <<clock, min_interval, last_call, lock, wake, wstart,
                   started, grants, minGrantGap>>
    /\ UNCHANGED notRL

\* the clock advances
Tick ==
    /\ clock < MaxClock
    /\ clock' = clock + 1
    /\ UNCHANGED <<min_interval, last_call, lock, wpc, wake, wcalls,
                   wstart, started, grants, minGrantGap, lastReturn,
                   minReturnGap>>
    /\ UNCHANGED notRL

NextRL ==
    \/ Tick
    \/ \E t \in Threads : CallWait(t)
    \/ \E t \in Threads : AcquireLock(t)
    \/ \E t \in Threads : StartSleep(t)
    \/ \E t \in Threads : SkipSleep(t)
    \/ \E t \in Threads : EndSleep(t)
    \/ \E t \in Threads : Stamp(t)
    \/ \E t \in Threads : ReturnWait(t)

StartRL == InitRL /\ ParkCL /\ ParkRT /\ ParkFP /\ ParkCsv /\ ParkCat /\ ParkCfg /\ ParkAd /\ ParkJs /\ ParkLim /\ ParkRd /\ ParkFr /\ ParkRq /\ ParkAt
SpecRL == StartRL /\ [][NextRL]_vars

\* C1 as stated: any two consecutive returns from wait(), by whichever callers,
\* are at least min_interval apart.
C1_ReturnsSpaced == minReturnGap >= min_interval

\* C1 (amended): any two consecutive assignments of _last_call made by wait()
\* (the instants at which calls are granted) are at least min_interval apart,
\* and the time from the start of a caller's first wait() to the return of its
\* N-th wait() is at least (N-1) * min_interval (the clock read when the N-th
\* call has returned is that far from the start, at the return and ever after).
C1_GrantsSpaced ==
    /\ minGrantGap >= min_interval
    /\ \A t \in Threads :
          wcalls[t] >= 1 => clock - wstart[t] >= (wcalls[t] - 1) * min_interval

\* two callers were granted exactly min_interval apart, one of them twice in a
\* row, and two returns came closer than min_interval
C1_Witness ==
    /\ grants >= 3
    /\ minGrantGap = min_interval
    /\ minReturnGap < min_interval
    /\ \E t, u \in Threads : t # u /\ wcalls[t] >= 2 /\ wcalls[u] >= 1

----------------------------------------------------------------------------
\* ConcurrencyLimiter and FirecrawlClient.extract

\* mutant: only a negative pool size is rejected
ConcurrencyLimiterNewAllowZero(k) ==
    IF k < 0
       THEN CtorRaised("ValueError")
       ELSE Constructed([a |-> k, b |-> k, c |-> 0])

\* ConcurrencyLimiter(max_concurrent): ValueError unless max_concurrent > 0, else
\* Semaphore(max_concurrent)
ConcurrencyLimiterNew(k) ==
    IF k <= 0
       THEN CtorRaised("ValueError")
       ELSE Constructed([a |-> k, b |-> k, c |-> 0])

\* ConcurrencyLimiter.__init__ returning an instance: the fields it sets
ConcurrencyLimiterInit(k) ==
    LET r == ConcurrencyLimiterNew(k)
    IN  /\ r.ok
        /\ max_concurrent = r.obj.a
        /\ semaphore = r.obj.b

InitCL ==
    /\ \E k \in 1..MaxPool : ConcurrencyLimiterInit(k)
    /\ cpc = [t \in Workers |-> "idle"]
    /\ exc = [t \in Workers |-> "none"]
    /\ outcome = [t \in Workers |-> "none"]
    /\ ccalls = 0
    /\ acquired = 0
    /\ released = 0

\* threads inside the `with _concurrency_limiter:` scope
Inside == {t \in Workers : cpc[t] \in {"in_scope", "leaving"}}

\* a thread calls FirecrawlClient.extract and reaches the `with` statement
CallExtract(t) ==
    /\ cpc[t] = "idle"
    /\ ccalls < MaxExtractCalls
    /\ ccalls' = ccalls + 1
    /\ cpc' = [cpc EXCEPT ![t] = "entering"]
    /\ outcome' = [outcome EXCEPT ![t] = "none"]
    /\ UNCHANGED <<max_concurrent, semaphore, exc, acquired, released>>
    /\ UNCHANGED notCL

\* mutant: acquire does not block when no slot is free
EnterNoBlock(t) ==
    /\ cpc[t] = "entering"
    /\ semaphore' = semaphore - 1
    /\ acquired' = acquired + 1
    /\ cpc' = [cpc EXCEPT ![t] = "in_scope"]
    /\ UNCHANGED <<max_concurrent, exc, outcome, ccalls, released>>
    /\ UNCHANGED notCL

\* ConcurrencyLimiter.__enter__: self._semaphore.acquire(), blocking while the
\* semaphore is zero
Enter(t) ==
    /\ cpc[t] = "entering"
    /\ semaphore > 0
    /\ semaphore' = semaphore - 1
    /\ acquired' = acquired + 1
    /\ cpc' = [cpc EXCEPT ![t] = "in_scope"]
    /\ UNCHANGED <<max_concurrent, exc, outcome, ccalls, released>>
    /\ UNCHANGED notCL

\* what self.app.extract(...) can do: raise, or return a falsy result, a result
\* without data, a result with data None, a result with data
AppResults == {"api_error", "no_result", "no_data_attr", "data_none", "data"}

\* mutant: a failed extraction is slept on and re-attempted inside the scope
ExtractBodyRetryInScope(t, r) ==
    /\ cpc[t] = "in_scope"
    /\ IF r = "data"
          THEN /\ exc' = [exc EXCEPT ![t] = "none"]
               /\ cpc' = [cpc EXCEPT ![t] = "leaving"]
               /\ UNCHANGED atVars
          ELSE /\ at_pc' = [at_pc EXCEPT ![t] = "backoff"]
               /\ UNCHANGED <<exc, cpc, at_tries, at_total>>
    /\ UNCHANGED <<max_concurrent, semaphore, outcome, ccalls, acquired, released>>
    /\ UNCHANGED notAt

\* body of the scope in FirecrawlClient.extract (lines 67-84)
ExtractBody(t, r) ==
    /\ cpc[t] = "in_scope"
    /\ exc' = [exc EXCEPT ![t] =
                  CASE r = "api_error" -> "ApiError"
                    [] r \in {"no_result", "no_data_attr", "data_none"}
                                       -> "FirecrawlExtractionError"
                    [] OTHER           -> "none"]
    /\ cpc' = [cpc EXCEPT ![t] = "leaving"]
    /\ UNCHANGED <<max_concurrent, semaphore, outcome, ccalls, acquired, released>>
    /\ UNCHANGED notCL

\* mutant: the slot is given back only when the scope ends without an exception
ExitLeakOnError(t) ==
    /\ cpc[t] = "leaving"
    /\ semaphore' = IF exc[t] = "none" THEN semaphore + 1 ELSE semaphore
    /\ released' = IF exc[t] = "none" THEN released + 1 ELSE released
    /\ outcome' = [outcome EXCEPT ![t] = IF exc[t] = "none" THEN "returned" ELSE exc[t]]
    /\ exc' = [exc EXCEPT ![t] = "none"]
    /\ cpc' = [cpc EXCEPT ![t] = "idle"]
    /\ UNCHANGED <<max_concurrent, ccalls, acquired>>
    /\ UNCHANGED notCL

\* ConcurrencyLimiter.__exit__(*args): self._semaphore.release(), whatever args
\* holds; it returns None, so an exception in flight goes on to the caller
Exit(t) ==
    /\ cpc[t] = "leaving"
    /\ semaphore' = semaphore + 1
    /\ released' = released + 1
    /\ outcome' = [outcome EXCEPT ![t] = IF exc[t] = "none" THEN "returned" ELSE exc[t]]
    /\ exc' = [exc EXCEPT ![t] = "none"]
    /\ cpc' = [cpc EXCEPT ![t] = "idle"]
    /\ UNCHANGED <<max_concurrent, ccalls, acquired>>
    /\ UNCHANGED notCL

NextCL ==
    \/ \E t \in Workers : CallExtract(t)
    \/ \E t \in Workers : Enter(t)
    \/ \E t \in Workers, r \in AppResults : ExtractBody(t, r)
    \/ \E t \in Workers : Exit(t)

StartCL == InitCL /\ ParkRL /\ ParkRT /\ ParkFP /\ ParkCsv /\ ParkCat /\ ParkCfg /\ ParkAd /\ ParkJs /\ ParkLim /\ ParkRd /\ ParkFr /\ ParkRq /\ ParkAt
SpecCL == StartCL /\ [][NextCL]_vars

\* C2: at most max_concurrent threads are inside the protected scope, and a
\* thread enters the scope only from a state in which fewer than max_concurrent
\* threads are inside (with max_concurrent inside, it stays blocked).
C2_AtMostK ==
    /\ [](Cardinality(Inside) <= max_concurrent)
    /\ [][\A t \in Workers :
             (cpc[t] = "entering" /\ cpc'[t] = "in_scope")
                 => Cardinality(Inside) < max_concurrent]_vars

\* the pool is full and one more thread is blocked at the entry of the scope
C2_Witness ==
    /\ Cardinality(Inside) = max_concurrent
    /\ \E t \in Workers : cpc[t] = "entering"

\* C3: slots held + slots free = max_concurrent in every state, every scope
\* entered has released its slot exactly once when it is left, and all slots
\* are free whenever no thread is inside a scope.
C3_ReleaseOnEveryExit ==
    /\ Cardinality(Inside) + semaphore = max_concurrent
    /\ acquired - released = Cardinality(Inside)
    /\ (Inside = {} => semaphore = max_concurrent)

\* scopes were left by FirecrawlExtractionError, by an error of the API call
\* and by normal return, and every slot is free again
C3_Witness ==
    /\ Inside = {}
    /\ semaphore = max_concurrent
    /\ \E t, u, v \in Workers :
          /\ outcome[t] = "FirecrawlExtractionError"
          /\ outcome[u] = "ApiError"
          /\ outcome[v] = "returned"

----------------------------------------------------------------------------
\* retry_with_backoff: tenacity.retry(stop=stop_after_attempt(max_attempts),
\*   wait=wait_random_exponential(min=min_wait, max=max_wait),
\*   retry=retry_if_exception_type(retry_on), reraise=True)

\* exception types an operation may raise, with their base classes
ExcTypes == {"HTTPError", "RequestException", "RuntimeError", "KeyboardInterrupt"}
Bases(e) ==
    CASE e = "HTTPError"         -> {"HTTPError", "RequestException", "Exception"}
      [] e = "RequestException"  -> {"RequestException", "Exception"}
      [] e = "RuntimeError"      -> {"RuntimeError", "Exception"}
      [] e = "Timeout"           -> {"Timeout", "RequestException", "Exception"}
      [] e = "ValidationError"   -> {"ValidationError", "ValueError", "Exception"}
      [] e = "FirecrawlExtractionError"
                                 -> {"FirecrawlExtractionError", "RuntimeError", "Exception"}
      [] e = "Exception"         -> {"Exception"}
      [] e = "ApiError"          -> {"ApiError", "Exception"}
      [] OTHER                   -> {e}
\* isinstance(e, types)
IsInstance(e, types) == Bases(e) \cap types # {}

Outcomes == {"ok"} \cup ExcTypes

\* retry_on as written at the call sites: the default and ATCC's (Exception,)
RetryOnChoices == {{"RequestException", "HTTPError"}, {"Exception"}}

\* the value or the error object produced by invocation i
Value(i) == [kind |-> "value", type |-> "ok", id |-> i]
Error(e, i) == [kind |-> "error", type |-> e, id |-> i]
NoResult == [kind |-> "none", type |-> "none", id |-> 0]

\* mutant: every failure is retried
ShouldRetryAnyFailure(o, types) == o # "ok"

\* retry=retry_if_exception_type(retry_on): retry iff the attempt failed with
\* an instance of one of the types
ShouldRetry(o, types) == o # "ok" /\ IsInstance(o, types)

\* mutant: one attempt too many
StopOffByOne(n, m) == n > m

\* stop=stop_after_attempt(max_attempts)
Stop(n, m) == n >= m

\* mutant: reraise=False, the last failure is wrapped in tenacity.RetryError
ReraiseWrapped(fut) == [kind |-> "error", type |-> "RetryError", id |-> fut.id]

\* reraise=True: RetryError.reraise() raises last_attempt's own exception
Reraise(fut) == fut

RECURSIVE Pow2(_)
Pow2(n) == IF n <= 0 THEN 1 ELSE 2 * Pow2(n - 1)

\* wait=wait_random_exponential(min=min_wait, max=max_wait): the upper end of
\* the interval the delay after attempt n is drawn from
WaitHigh(n, lo, hi) == Max(Max(0, lo), Min(Pow2(n - 1), hi))

\* mutant: the delay is drawn from [0, high], min_wait is not honoured
DelaysFromZero(n, lo, hi) == 0..WaitHigh(n, lo, hi)

\* the delays wait_random_exponential can return after attempt n:
\* random.uniform(min, high)
Delays(n, lo, hi) == lo..WaitHigh(n, lo, hi)

InitRT ==
    /\ max_attempts \in 1..MaxAttempts
    /\ min_wait \in 1..2
    /\ max_wait \in 2..MaxWaitBound
    /\ retry_on \in RetryOnChoices
    /\ script \in [1..(MaxAttempts + 1) -> Outcomes]
    /\ attempt_number = 1
    /\ tpc = "attempt"
    /\ history = <<>>
    /\ sleeps = <<>>
    /\ tresult = NoResult

\* one pass of tenacity's loop: invoke the operation, then decide
Attempt ==
    /\ tpc = "attempt"
    /\ attempt_number <= Len(script)
    /\ LET o == script[attempt_number]
           i == Len(history) + 1
           fut == IF o = "ok" THEN Value(i) ELSE Error(o, i)
       IN  /\ history' = Append(history, o)
           /\ IF ~ShouldRetry(o, retry_on)
                 THEN \* fut.result(): the value, or the exception itself
                      /\ tresult' = fut
                      /\ tpc' = IF o = "ok" THEN "returned" ELSE "raised"
              ELSE IF Stop(attempt_number, max_attempts)
                 THEN /\ tresult' = Reraise(fut)
                      /\ tpc' = "raised"
              ELSE /\ tresult' = tresult
                   /\ tpc' = "sleep"
    /\ UNCHANGED <<max_attempts, min_wait, max_wait, retry_on, script,
                   attempt_number, sleeps>>
    /\ UNCHANGED notRT

\* the backoff sleep between two attempts, then the next attempt is due
Backoff ==
    /\ tpc = "sleep"
    /\ \E d \in Delays(attempt_number, min_wait, max_wait) :
          sleeps' = Append(sleeps, d)
    /\ attempt_number' = attempt_number + 1
    /\ tpc' = "attempt"
    /\ UNCHANGED <<max_attempts, min_wait, max_wait, retry_on, script, history,
                   tresult>>
    /\ UNCHANGED notRT

NextRT ==
    \/ Attempt
    \/ Backoff

StartRT == InitRT /\ ParkRL /\ ParkCL /\ ParkFP /\ ParkCsv /\ ParkCat /\ ParkCfg /\ ParkAd /\ ParkJs /\ ParkLim /\ ParkRd /\ ParkFr /\ ParkRq /\ ParkAt
SpecRetry == StartRT /\ [][NextRT]_vars

Finished == tpc \in {"returned", "raised"}
Retryable(o) == o # "ok" /\ IsInstance(o, retry_on)
Fatal(o) == o # "ok" /\ ~IsInstance(o, retry_on)

\* C4: the operation is never invoked more than max_attempts times and never
\* again after a success; and when it fails with a retryable error on its first
\* max_attempts - 1 invocations and succeeds on the next, the wrapped call
\* returns that success value after exactly max_attempts invocations.
C4_RetryUntilSuccess ==
    /\ Len(history) <= max_attempts
    /\ \A i \in 1..Len(history) :
          history[i] = "ok" => i = Len(history) /\ tpc = "returned" /\ tresult = Value(i)
    /\ ( /\ Finished
         /\ \A i \in 1..(max_attempts - 1) : Retryable(script[i])
         /\ script[max_attempts] = "ok" )
       => /\ tpc = "returned"
          /\ tresult = Value(max_attempts)
          /\ Len(history) = max_attempts

\* max_attempts - 1 >= 1 retryable failures, then a success that is returned
C4_Witness ==
    /\ max_attempts >= 2
    /\ tpc = "returned"
    /\ Len(history) = max_attempts
    /\ \A i \in 1..(max_attempts - 1) : Retryable(history[i])
    /\ tresult = Value(max_attempts)

\* C5: a failure whose type is not in retry_on, on whichever attempt, is the
\* last invocation; it reaches the caller as it is, and no backoff sleep
\* follows it (i - 1 sleeps before invocation i, none after).
C5_FatalPropagates ==
    \A i \in 1..Len(history) :
        Fatal(history[i]) =>
            /\ i = Len(history)
            /\ tpc = "raised"
            /\ tresult = Error(history[i], i)
            /\ Len(sleeps) = i - 1

\* a non-retryable failure on a later attempt, after a retried one
C5_Witness ==
    /\ Len(history) >= 2
    /\ Fatal(history[Len(history)])
    /\ Len(history) < max_attempts
    /\ tpc = "raised"

\* C6: when all max_attempts invocations fail with retryable errors, the
\* wrapped call raises the very error of the last invocation, after exactly
\* max_attempts invocations.
C6_LastErrorReraised ==
    ( /\ Finished
      /\ \A i \in 1..max_attempts : Retryable(script[i]) )
    => /\ tpc = "raised"
       /\ Len(history) = max_attempts
       /\ tresult = Error(script[max_attempts], max_attempts)

\* every one of max_attempts >= 2 invocations failed with a retryable error, the
\* first and the last of different types, and the last one was raised
C6_Witness ==
    /\ max_attempts >= 2
    /\ tpc = "raised"
    /\ Len(history) = max_attempts
    /\ \A i \in 1..max_attempts : Retryable(history[i])
    /\ history[1] # history[max_attempts]
    /\ tresult = Error(history[max_attempts], max_attempts)

----------------------------------------------------------------------------
\* FeaturesPipeline.fetch_features_for_organism and the catalog it reads

\* Python's None as an adapter result
NoneValue == [kind |-> "None", data |-> "none"]
\* the argument source_ids: omitted (None), or a list of ids
Omitted == [given |-> FALSE, ids |-> <<>>]
Given(ids) == [given |-> TRUE, ids |-> ids]
\* what the caller of fetch_features_for_organism got back
NothingReturned == [returned |-> FALSE, rows |-> <<>>]
Returned(rs) == [returned |-> TRUE, rows |-> rs]

\* keys of SOURCE_REGISTRY, in the order the dict literal lists them
SOURCE_REGISTRY == <<"protocols_io", "ncbi", "nih_reporter", "atcc", "exa_answer">>

Range(f) == {f[i] : i \in DOMAIN f}
RegistryKeys == Range(SOURCE_REGISTRY)

\* ids that are not registered
UnknownIds == {"not_a_real_source", "bogus"}
OrganismIds == {3077}

\* a required key that an entry of the YAML definition does not give
Absent == "<absent>"

\* FeatureMetadata.model_validate: description is required and has min_length=1
ModelValidate(f) == f.description \notin {Absent, ""}

\* mutant: entries that fail validation are dropped and the others loaded
get_all_feature_metadata_PartialLoad(features) ==
    [ok |-> TRUE, features |-> SelectSeq(features, ModelValidate)]

\* FeatureMetadataService.get_all_feature_metadata: every entry is validated, one
\* invalid entry raises ValidationError
get_all_feature_metadata(features) ==
    IF \A i \in DOMAIN features : ModelValidate(features[i])
       THEN [ok |-> TRUE, features |-> features]
       ELSE [ok |-> FALSE, features |-> <<>>]

\* mutant: the lookup stops at the first matching entry
get_feature_metadata_by_source_FirstOnly(features, source_id) ==
    LET all == get_all_feature_metadata(features)
        Matches(f) == f.source_id = source_id
        found == SelectSeq(all.features, Matches)
    IN  IF all.ok THEN [ok |-> TRUE, features |-> SubSeq(found, 1, Min(1, Len(found)))]
        ELSE all

\* FeatureMetadataService.get_feature_metadata_by_source
get_feature_metadata_by_source(features, source_id) ==
    LET all == get_all_feature_metadata(features)
        Matches(f) == f.source_id = source_id
    IN  IF all.ok THEN [ok |-> TRUE, features |-> SelectSeq(all.features, Matches)]
        ELSE all

\* mutant: only the first requested id is validated
InvalidSourcesFirstOnly(sids) ==
    IF sids # <<>> /\ sids[1] \notin RegistryKeys THEN <<sids[1]>> ELSE <<>>

\* invalid_sources = [sid for sid in source_ids if sid not in SOURCE_REGISTRY]
InvalidSources(sids) ==
    LET Unknown(x) == x \notin RegistryKeys
    IN  SelectSeq(sids, Unknown)

\* keys of a dict built by inserting the elements of a list in order: each key
\* once, at the place of its first occurrence
RECURSIVE DictKeys(_)
DictKeys(sq) ==
    IF sq = <<>> THEN <<>>
    ELSE LET init == DictKeys(SubSeq(sq, 1, Len(sq) - 1))
             last == sq[Len(sq)]
         IN  IF last \in Range(init) THEN init ELSE Append(init, last)

\* mutant: one loop iteration per listed id, repeated ids included
SelectedKeysAsListed(sids) == sids

\* {source_id: SOURCE_REGISTRY[source_id] for source_id in source_ids}
SelectedKeys(sids) == DictKeys(sids)

\* FeaturesPipeline._get_sources_to_process
get_sources_to_process(sids) ==
    IF ~sids.given
       THEN [ok |-> TRUE, keys |-> SOURCE_REGISTRY, invalid |-> <<>>]
    ELSE IF InvalidSources(sids.ids) # <<>>
       THEN [ok |-> FALSE, keys |-> <<>>, invalid |-> InvalidSources(sids.ids)]
    ELSE [ok |-> TRUE, keys |-> SelectedKeys(sids.ids), invalid |-> <<>>]

\* what an adapter can hand back: None, a pydantic model (it has model_dump),
\* a plain dict, or an empty value that is not None (an empty list)
EmptyDict == [kind |-> "dict", data |-> "empty"]
EmptyList == [kind |-> "list", data |-> "empty"]
AdapterResults ==
    { NoneValue,
      [kind |-> "model", data |-> "payload"],
      [kind |-> "dict", data |-> "payload"],
      EmptyList }

\* the entry of the invocation log for a call that raised instead of returning
RaisedValue == [kind |-> "raised", data |-> "none"]

\* mutant: every falsy result, not only None, becomes {}
NormalizeFalsy(result) ==
    IF result = NoneValue \/ result.data = "empty" THEN EmptyDict
    ELSE IF result.kind = "model" THEN [kind |-> "dict", data |-> result.data]
    ELSE result

\* result is None -> {} ; hasattr(result, "model_dump") -> result.model_dump() ;
\* otherwise the result itself
Normalize(result) ==
    IF result = NoneValue THEN [kind |-> "dict", data |-> "empty"]
    ELSE IF result.kind = "model" THEN [kind |-> "dict", data |-> result.data]
    ELSE result

\* mutant: a feature without data gets no row
AppendRowSkipEmpty(rs, row, result) ==
    IF result = NoneValue THEN rs ELSE Append(rs, row)

\* rows.append({...})
AppendRow(rs, row, result) == Append(rs, row)

\* exceptions that leave fetch_features_for_organism; call is the number of the
\* adapter invocation that raised
NoError == [type |-> "none", invalid |-> <<>>, available |-> <<>>, call |-> 0]
ValueError(invalid) ==
    [type |-> "ValueError", invalid |-> invalid, available |-> SOURCE_REGISTRY,
     call |-> 0]
AdapterError(n) ==
    [type |-> "AdapterError", invalid |-> <<>>, available |-> <<>>, call |-> n]
ValidationError ==
    [type |-> "ValidationError", invalid |-> <<>>, available |-> <<>>, call |-> 0]

RECURSIVE SeqsUpTo(_, _)
SeqsUpTo(S, n) ==
    IF n = 0 THEN {<<>>}
    ELSE LET shorter == SeqsUpTo(S, n - 1)
         IN  shorter \cup {Append(sq, x) : sq \in {q \in shorter : Len(q) = n - 1}, x \in S}

\* sources the catalogs tried have features for; the other registered sources
\* have none
CatalogSources == {SOURCE_REGISTRY[1], SOURCE_REGISTRY[2], SOURCE_REGISTRY[3]}

\* catalogs that load: entry i has feature_id i, a registered source and a
\* description
Catalogs ==
    { [i \in 1..Len(srcs) |->
          [feature_id |-> i, source_id |-> srcs[i], description |-> "d"]] :
      srcs \in SeqsUpTo(CatalogSources, MaxCatalog) }

SourceIdChoices ==
    {Omitted} \cup {Given(ids) : ids \in SeqsUpTo(RegistryKeys \cup UnknownIds, MaxSourceIds)}

\* FeaturesPipeline() with a catalog definition out of the given ones
InitFPWith(catalogs) ==
    /\ yaml_features \in catalogs
    /\ fpc = "idle"
    /\ organism_id = 0
    /\ source_ids = Omitted
    /\ sources_to_process = <<>>
    /\ si = 0
    /\ features_metadata = <<>>
    /\ fi = 0
    /\ rows = <<>>
    /\ retval = NothingReturned
    /\ ferror = NoError
    /\ catalogLookups = <<>>
    /\ adapterCalls = <<>>

InitFP == InitFPWith(Catalogs)

\* fetch_features_for_organism is called: rows = [] and _get_sources_to_process
\* (lines 169-171)
FetchCallWith(oid, sids) ==
    /\ fpc = "idle"
    /\ organism_id' = oid
    /\ source_ids' = sids
    /\ rows' = <<>>
    /\ features_metadata' = <<>>
    /\ LET r == get_sources_to_process(sids)
       IN  IF r.ok
              THEN /\ sources_to_process' = r.keys
                   /\ si' = 0
                   /\ fi' = 1
                   /\ fpc' = "loop"
                   /\ ferror' = ferror
              ELSE /\ ferror' = ValueError(r.invalid)
                   /\ fpc' = "raised"
                   /\ UNCHANGED <<sources_to_process, si, fi>>
    /\ UNCHANGED <<yaml_features, retval, catalogLookups, adapterCalls>>
    /\ UNCHANGED notFP

\* a caller invokes fetch_features_for_organism with some arguments
FetchCall ==
    /\ fpc = "idle"
    /\ \E oid \in OrganismIds, sids \in SourceIdChoices : FetchCallWith(oid, sids)

\* the loop over features_metadata has a feature left
MoreFeatures == fi <= Len(features_metadata)

\* next iteration of the loop over sources_to_process.items(), entered when the
\* features of the previous source are done: the catalog lookup of line 173
LookupSource ==
    /\ fpc = "loop"
    /\ ~MoreFeatures
    /\ si < Len(sources_to_process)
    /\ si' = si + 1
    /\ catalogLookups' = Append(catalogLookups, sources_to_process[si + 1])
    /\ LET r == get_feature_metadata_by_source(yaml_features, sources_to_process[si + 1])
       IN  IF r.ok
              THEN /\ features_metadata' = r.features
                   /\ fi' = 1
                   /\ UNCHANGED <<fpc, ferror>>
              ELSE /\ ferror' = ValidationError
                   /\ fpc' = "raised"
                   /\ UNCHANGED <<features_metadata, fi>>
    /\ UNCHANGED <<yaml_features, organism_id, source_ids, sources_to_process,
                   rows, retval, adapterCalls>>
    /\ UNCHANGED notFP

\* mutant: a failing adapter is caught and recorded as an empty row
InvokeAdapterSwallow(raises, result) ==
    /\ fpc = "loop"
    /\ MoreFeatures
    /\ LET fm == features_metadata[fi]
           n == Len(adapterCalls) + 1
       IN  /\ adapterCalls' = Append(adapterCalls,
                  [source |-> sources_to_process[si], feature_id |-> fm.feature_id,
                   raised |-> raises,
                   returned |-> IF raises THEN RaisedValue ELSE result])
           /\ rows' = AppendRow(rows,
                        [organism_id |-> organism_id, feature_id |-> fm.feature_id,
                         source_id |-> fm.source_id,
                         fetched_object |-> Normalize(IF raises THEN NoneValue ELSE result)],
                        IF raises THEN [kind |-> "dict", data |-> "empty"] ELSE result)
           /\ fi' = fi + 1
           /\ UNCHANGED <<fpc, ferror>>
    /\ UNCHANGED <<yaml_features, organism_id, source_ids, sources_to_process, si,
                   features_metadata, retval, catalogLookups>>
    /\ UNCHANGED notFP

\* one iteration of the loop over features_metadata (lines 174-200): the adapter
\* registered for the source is invoked; it raises or returns a result, which is
\* normalized and appended as a row
InvokeAdapter(raises, result) ==
    /\ fpc = "loop"
    /\ MoreFeatures
    /\ LET fm == features_metadata[fi]
           n == Len(adapterCalls) + 1
       IN  /\ adapterCalls' = Append(adapterCalls,
                  [source |-> sources_to_process[si], feature_id |-> fm.feature_id,
                   raised |-> raises,
                   returned |-> IF raises THEN RaisedValue ELSE result])
           /\ IF raises
                 THEN /\ ferror' = AdapterError(n)
                      /\ fpc' = "raised"
                      /\ UNCHANGED <<rows, fi>>
                 ELSE /\ rows' = AppendRow(rows,
                                   [organism_id |-> organism_id,
                                    feature_id |-> fm.feature_id,
                                    source_id |-> fm.source_id,
                                    fetched_object |-> Normalize(result)],
                                   result)
                      /\ fi' = fi + 1
                      /\ UNCHANGED <<fpc, ferror>>
    /\ UNCHANGED <<yaml_features, organism_id, source_ids, sources_to_process, si,
                   features_metadata, retval, catalogLookups>>
    /\ UNCHANGED notFP

\* both loops are exhausted: return rows (line 202)
FetchReturn ==
    /\ fpc = "loop"
    /\ ~MoreFeatures
    /\ si >= Len(sources_to_process)
    /\ retval' = Returned(rows)
    /\ fpc' = "returned"
    /\ UNCHANGED <<yaml_features, organism_id, source_ids, sources_to_process, si,
                   features_metadata, fi, rows, ferror, catalogLookups, adapterCalls>>
    /\ UNCHANGED notFP

NextFP ==
    \/ FetchCall
    \/ LookupSource
    \/ \E raises \in BOOLEAN, result \in AdapterResults : InvokeAdapter(raises, result)
    \/ FetchReturn

StartFP == InitFP /\ ParkRL /\ ParkCL /\ ParkRT /\ ParkCsv /\ ParkCat /\ ParkCfg /\ ParkAd /\ ParkJs /\ ParkLim /\ ParkRd /\ ParkFr /\ ParkRq /\ ParkAt
SpecFetch == StartFP /\ [][NextFP]_vars

\* the sources a call selects, and whether all requested ids are registered
Selected == IF source_ids.given THEN Range(source_ids.ids) ELSE RegistryKeys
ValidSelection == Selected \subseteq RegistryKeys
FetchOver == fpc \in {"returned", "raised"}
SelectedEntries == {j \in DOMAIN yaml_features : yaml_features[j].source_id \in Selected}

\* C7: when no adapter raises, the call returns exactly one row for every
\* catalog entry of a selected source (all registered sources when source_ids is
\* omitted), whatever the adapter returned; every row carries the given
\* organism_id, the entry's feature_id and the source's id.
C7_OneRowPerFeature ==
    (FetchOver /\ ValidSelection /\ ferror.type # "AdapterError") =>
        /\ fpc = "returned"
        /\ retval.returned
        /\ Len(retval.rows) = Cardinality(SelectedEntries)
        /\ \A j \in SelectedEntries :
              Cardinality({i \in DOMAIN retval.rows :
                              /\ retval.rows[i].feature_id = yaml_features[j].feature_id
                              /\ retval.rows[i].source_id = yaml_features[j].source_id}) = 1
        /\ \A i \in DOMAIN retval.rows :
              /\ retval.rows[i].organism_id = organism_id
              /\ retval.rows[i].source_id \in Selected

\* a call restricted to some sources returned several rows, one of them for an
\* adapter that returned None, and the catalog has entries of other sources
C7_Witness ==
    /\ fpc = "returned"
    /\ source_ids.given
    /\ Len(retval.rows) >= 2
    /\ Len(retval.rows) < Len(yaml_features)
    /\ \E i \in DOMAIN retval.rows : retval.rows[i].fetched_object.data = "empty"
    /\ \E i \in DOMAIN retval.rows : retval.rows[i].fetched_object.data = "payload"

RegPos(s) == CHOOSE i \in DOMAIN SOURCE_REGISTRY : SOURCE_REGISTRY[i] = s
CatPos(fid) == CHOOSE j \in DOMAIN yaml_features : yaml_features[j].feature_id = fid
\* (registry position, catalog position) of a comes before that of b
Before(sa, fa, sb, fb) ==
    \/ RegPos(sa) < RegPos(sb)
    \/ RegPos(sa) = RegPos(sb) /\ CatPos(fa) < CatPos(fb)

\* C8 as stated: the adapter invocations and the returned rows are ordered by
\* (position of the source in SOURCE_REGISTRY, position of the feature in the
\* catalog), for source_ids omitted and for every valid source_ids list.
C8_RegistryOrder ==
    /\ \A i, j \in DOMAIN adapterCalls :
          i < j => Before(adapterCalls[i].source, adapterCalls[i].feature_id,
                          adapterCalls[j].source, adapterCalls[j].feature_id)
    /\ \A i, j \in DOMAIN retval.rows :
          i < j => Before(retval.rows[i].source_id, retval.rows[i].feature_id,
                          retval.rows[j].source_id, retval.rows[j].feature_id)

HasUnknownId == source_ids.given /\ ~ValidSelection

\* C9: a call whose source_ids holds an unregistered id raises ValueError; the
\* error names every unknown id and lists the registered sources; no catalog
\* lookup and no adapter invocation has been made, valid ids in the list or not.
C9_UnknownSourceRejected ==
    (fpc # "idle" /\ HasUnknownId) =>
        /\ fpc = "raised"
        /\ ferror.type = "ValueError"
        /\ Range(ferror.invalid) = Range(source_ids.ids) \ RegistryKeys
        /\ ferror.available = SOURCE_REGISTRY
        /\ catalogLookups = <<>>
        /\ adapterCalls = <<>>
        /\ ~retval.returned

\* a list with a registered id first and an unknown id after it was rejected,
\* with a catalog that has features of the registered source
C9_Witness ==
    /\ fpc = "raised"
    /\ ferror.type = "ValueError"
    /\ Len(source_ids.ids) = 2
    /\ source_ids.ids[1] \in RegistryKeys
    /\ source_ids.ids[2] \notin RegistryKeys
    /\ \E j \in DOMAIN yaml_features : yaml_features[j].source_id = source_ids.ids[1]

\* C10: an adapter invocation that raises is the last one of the call; its
\* exception is the one that reaches the caller, and nothing is returned, rows
\* fetched before included.
C10_AdapterErrorAborts ==
    \A n \in DOMAIN adapterCalls :
        adapterCalls[n].raised =>
            /\ n = Len(adapterCalls)
            /\ fpc = "raised"
            /\ ferror = AdapterError(n)
            /\ ~retval.returned

\* an adapter raised after rows had been fetched and while features were left
C10_Witness ==
    /\ fpc = "raised"
    /\ ferror.type = "AdapterError"
    /\ ferror.call >= 2
    /\ rows # <<>>
    /\ Len(adapterCalls) < Cardinality(SelectedEntries)

\* the value the adapter returned for row k: a raising call ends the
\* invocation, so the k-th row comes from the k-th call
ResultOfRow(k) == adapterCalls[k].returned
IsEmptyResult(v) == v = NoneValue \/ v.data = "empty"

\* C20 as stated: a None or empty result is stored as {}, a result with
\* model_dump as its plain record, any other value unchanged.
C20_NoneOrEmptyBecomesEmptyDict ==
    \A k \in DOMAIN rows :
        LET result == ResultOfRow(k)
            stored == rows[k].fetched_object
        IN  /\ IsEmptyResult(result) => stored = EmptyDict
            /\ (~IsEmptyResult(result) /\ result.kind = "model") =>
                   stored = [kind |-> "dict", data |-> result.data]
            /\ (~IsEmptyResult(result) /\ result.kind # "model") => stored = result

\* C20 (amended): only None is stored as {}; a result with model_dump is stored
\* as its plain record; any other value, an empty one included, is stored
\* unchanged.
C20_OnlyNoneBecomesEmptyDict ==
    \A k \in DOMAIN rows :
        LET result == ResultOfRow(k)
            stored == rows[k].fetched_object
        IN  /\ result = NoneValue => stored = EmptyDict
            /\ (result # NoneValue /\ result.kind = "model") =>
                   stored = [kind |-> "dict", data |-> result.data]
            /\ (result # NoneValue /\ result.kind # "model") => stored = result

\* a returned invocation with a row from None stored as {} and a row from an
\* empty list stored as that list
C20_Witness ==
    /\ fpc = "returned"
    /\ \E k \in DOMAIN rows :
          ResultOfRow(k) = NoneValue /\ rows[k].fetched_object = EmptyDict
    /\ \E k \in DOMAIN rows :
          ResultOfRow(k) = EmptyList /\ rows[k].fetched_object = EmptyList

----------------------------------------------------------------------------
\* FeaturesPipeline.run_csv

NameColumn == "organism_scientific_name"
IdColumn == "organism_id"
\* required = {"organism_scientific_name", "organism_id"}
RequiredColumns == {NameColumn, IdColumn}

\* csv.DictReader(f).fieldnames: None for an empty file, else the first row
NoHeader == [present |-> FALSE, names |-> <<>>]
Header(names) == [present |-> TRUE, names |-> names]
Headers ==
    { NoHeader,
      Header(<<NameColumn, IdColumn>>), Header(<<IdColumn, NameColumn>>),
      Header(<<NameColumn>>), Header(<<IdColumn>>), Header(<<"taxid">>) }
HeaderOk(h) == h.present /\ RequiredColumns \subseteq Range(h.names)

\* a line after the header: an empty line, which DictReader skips, or a row
\* with the cells of the two required columns
BlankLine == [blank |-> TRUE, name |-> "", id |-> ""]
DataLine(n, i) == [blank |-> FALSE, name |-> n, id |-> i]
CsvLines ==
    { BlankLine,
      DataLine("Chlorella vulgaris", "3077"),
      DataLine(" Escherichia coli ", " 562 "),
      DataLine("  ", "3077"),
      DataLine("Chlorella vulgaris", ""),
      DataLine("Chlorella vulgaris", "3077.0") }

\* str.strip() on the cell texts above
Strip(txt) ==
    CASE txt = " Escherichia coli " -> "Escherichia coli"
      [] txt = " 562 "              -> "562"
      [] txt = "  "                 -> ""
      [] OTHER                      -> txt

\* int(oid_raw): the texts it accepts, and their values
IsIntText(txt) == txt \in {"3077", "562"}
IntOf(txt) == IF txt = "562" THEN 562 ELSE 3077

InputFiles ==
    { [header |-> h, lines |-> ls] : h \in Headers, ls \in SeqsUpTo(CsvLines, MaxCsvLines) }

\* exceptions that leave run_csv; row is the number the message carries, inner
\* the exception of fetch_features_for_organism when that is what propagates
NoRunError ==
    [type |-> "none", why |-> "none", row |-> 0, missing |-> {}, inner |-> NoError]
InputValueError(why, row, missing) ==
    [type |-> "ValueError", why |-> why, row |-> row, missing |-> missing,
     inner |-> NoError]
Propagated(e) ==
    [type |-> e.type, why |-> "fetch", row |-> 0, missing |-> {}, inner |-> e]

ReadOk(orgs) == [ok |-> TRUE, organisms |-> orgs, error |-> NoRunError]
ReadFailed(e) == [ok |-> FALSE, organisms |-> <<>>, error |-> e]

\* for i, row in enumerate(reader, start=2)
FirstRowNumber == 2

\* mutant: a malformed row is skipped instead of rejected
RECURSIVE ReadRowsSkipMalformed(_, _, _, _)
ReadRowsSkipMalformed(lines, k, i, acc) ==
    IF k > Len(lines) THEN ReadOk(acc)
    ELSE IF lines[k].blank THEN ReadRowsSkipMalformed(lines, k + 1, i, acc)
    ELSE LET name == Strip(lines[k].name)
             oid_raw == Strip(lines[k].id)
         IN  IF name = "" \/ oid_raw = "" \/ ~IsIntText(oid_raw)
                THEN ReadRowsSkipMalformed(lines, k + 1, i + 1, acc)
             ELSE ReadRowsSkipMalformed(lines, k + 1, i + 1,
                      Append(acc, [organism_scientific_name |-> name,
                                   organism_id |-> IntOf(oid_raw)]))

\* the loop of lines 93-107 from line k on; i is the number enumerate gives to
\* the next row the reader yields, acc the list organisms so far
RECURSIVE ReadRows(_, _, _, _)
ReadRows(lines, k, i, acc) ==
    IF k > Len(lines) THEN ReadOk(acc)
    ELSE IF lines[k].blank THEN ReadRows(lines, k + 1, i, acc)
    ELSE LET name == Strip(lines[k].name)
             oid_raw == Strip(lines[k].id)
         IN  IF name = "" \/ oid_raw = ""
                THEN ReadFailed(InputValueError("missing_value", i, {}))
             ELSE IF ~IsIntText(oid_raw)
                THEN ReadFailed(InputValueError("not_integer", i, {}))
             ELSE ReadRows(lines, k + 1, i + 1,
                      Append(acc, [organism_scientific_name |-> name,
                                   organism_id |-> IntOf(oid_raw)]))

\* the `with input_csv_path.open(...)` block, lines 79-107
ReadInput(inp) ==
    IF ~inp.header.present
       THEN ReadFailed(InputValueError("no_header", 0, {}))
    ELSE IF RequiredColumns \ Range(inp.header.names) # {}
       THEN ReadFailed(InputValueError("missing_columns", 0,
                                       RequiredColumns \ Range(inp.header.names)))
    ELSE ReadRows(inp.lines, 1, FirstRowNumber, <<>>)

\* fieldnames = ["organism_id", "feature_id", "source_id", "fetched_object"]
OutputHeader == <<"organism_id", "feature_id", "source_id", "fetched_object">>

\* json.dumps(fetched_object, ensure_ascii=False, sort_keys=True)
JsonDumps(obj) ==
    CASE obj.kind = "dict" /\ obj.data = "empty" -> "{}"
      [] obj.kind = "dict"                       -> "{\"payload\": 1}"
      [] obj.kind = "list" /\ obj.data = "empty" -> "[]"
      [] OTHER                                   -> "[1]"

\* the record writer.writerow puts out for a row (lines 121-130)
FormatRow(r) ==
    <<ToString(r.organism_id), ToString(r.feature_id), r.source_id,
      JsonDumps(r.fetched_object)>>

\* mutant: the rows of an organism are written last row first
WriteRowsReversed(records, rs) ==
    records \o [j \in 1..Len(rs) |-> FormatRow(rs[Len(rs) + 1 - j])]

\* for r in rows: writer.writerow(...)
WriteRows(records, rs) ==
    records \o [j \in 1..Len(rs) |-> FormatRow(rs[j])]

NotOpened == [opened |-> FALSE, records |-> <<>>]

\* catalogs, source_ids lists and adapter results tried under run_csv
\* (the catalogs declare one feature per source, in registry order)
CsvCatalogs ==
    {c \in Catalogs :
        /\ Len(c) <= MaxCsvFeatures
        /\ \A j \in DOMAIN c :
              c[j].source_id = SOURCE_REGISTRY[((j - 1) % Len(SOURCE_REGISTRY)) + 1]}
CsvSourceIdChoices ==
    {Omitted} \cup
    {Given(ids) : ids \in SeqsUpTo({SOURCE_REGISTRY[1], SOURCE_REGISTRY[2],
                                    "not_a_real_source"}, MaxCsvSourceIds)}
CsvAdapterResults == {NoneValue, [kind |-> "model", data |-> "payload"]}

InitCsv ==
    /\ input_csv = [header |-> NoHeader, lines |-> <<>>]
    /\ csv_source_ids = Omitted
    /\ rpc = "idle"
    /\ organisms = <<>>
    /\ oi = 0
    /\ out_file = NotOpened
    /\ rerror = NoRunError
    /\ fetched = <<>>

\* run_csv is called: the input file is read and validated (lines 75-107)
RunCsvCallWith(inp, sids) ==
    /\ rpc = "idle"
    /\ input_csv' = inp
    /\ csv_source_ids' = sids
    /\ LET r == ReadInput(inp)
       IN  IF r.ok
              THEN /\ organisms' = r.organisms
                   /\ rpc' = "read"
                   /\ rerror' = rerror
              ELSE /\ rerror' = r.error
                   /\ rpc' = "raised"
                   /\ organisms' = organisms
    /\ UNCHANGED <<oi, out_file, fetched>>
    /\ UNCHANGED fpVars
    /\ UNCHANGED notCsv

RunCsvCall ==
    /\ rpc = "idle"
    /\ \E inp \in InputFiles, sids \in CsvSourceIdChoices : RunCsvCallWith(inp, sids)

\* the output file is opened for writing and the header written (lines 109-112)
OpenOutput ==
    /\ rpc = "read"
    /\ out_file' = [opened |-> TRUE, records |-> <<OutputHeader>>]
    /\ oi' = 1
    /\ rpc' = "writing"
    /\ UNCHANGED <<input_csv, csv_source_ids, organisms, rerror, fetched>>
    /\ UNCHANGED fpVars
    /\ UNCHANGED notCsv

\* for org in organisms: rows = self.fetch_features_for_organism(...) (lines 114-119)
FetchOrganism ==
    /\ rpc = "writing"
    /\ fpc = "idle"
    /\ oi <= Len(organisms)
    /\ FetchCallWith(organisms[oi].organism_id, csv_source_ids)

\* the fetch returned: its rows are written (lines 120-130)
WriteOrganism ==
    /\ rpc = "writing"
    /\ fpc = "returned"
    /\ out_file' = [out_file EXCEPT !.records = WriteRows(@, retval.rows)]
    /\ fetched' = Append(fetched, retval.rows)
    /\ oi' = oi + 1
    /\ fpc' = "idle"
    /\ UNCHANGED <<input_csv, csv_source_ids, rpc, organisms, rerror>>
    /\ UNCHANGED <<yaml_features, organism_id, source_ids, sources_to_process, si,
                   features_metadata, fi, rows, retval, ferror, catalogLookups,
                   adapterCalls>>
    /\ UNCHANGED notCsv

\* mutant: the rows fetched before the failure are written on the way out
RunCsvRaiseWritePartial ==
    /\ rpc = "writing"
    /\ fpc = "raised"
    /\ rerror' = Propagated(ferror)
    /\ rpc' = "raised"
    /\ out_file' = [out_file EXCEPT !.records = WriteRows(@, rows)]
    /\ UNCHANGED <<input_csv, csv_source_ids, organisms, oi, fetched>>
    /\ UNCHANGED fpVars
    /\ UNCHANGED notCsv

\* the fetch raised: nothing catches it, the `with` closes the file and the
\* exception leaves run_csv
RunCsvRaise ==
    /\ rpc = "writing"
    /\ fpc = "raised"
    /\ rerror' = Propagated(ferror)
    /\ rpc' = "raised"
    /\ UNCHANGED <<input_csv, csv_source_ids, organisms, oi, out_file, fetched>>
    /\ UNCHANGED fpVars
    /\ UNCHANGED notCsv

\* the loop over organisms is exhausted: run_csv returns
RunCsvReturn ==
    /\ rpc = "writing"
    /\ fpc = "idle"
    /\ oi > Len(organisms)
    /\ rpc' = "done"
    /\ UNCHANGED <<input_csv, csv_source_ids, organisms, oi, out_file, rerror, fetched>>
    /\ UNCHANGED fpVars
    /\ UNCHANGED notCsv

NextCsv ==
    \/ RunCsvCall
    \/ OpenOutput
    \/ FetchOrganism
    \/ LookupSource
    \/ \E raises \in BOOLEAN, result \in CsvAdapterResults : InvokeAdapter(raises, result)
    \/ FetchReturn
    \/ WriteOrganism
    \/ RunCsvRaise
    \/ RunCsvReturn

StartCsv == InitCsv /\ InitFPWith(CsvCatalogs) /\ ParkRL /\ ParkCL /\ ParkRT /\ ParkCat /\ ParkCfg /\ ParkAd /\ ParkJs /\ ParkLim /\ ParkRd /\ ParkFr /\ ParkRq /\ ParkAt
SpecCsv == StartCsv /\ [][NextCsv]_vars

\* the rows DictReader yields for a file, and the rows the loop rejects
DataRows(inp) ==
    LET IsRow(l) == ~l.blank
    IN  SelectSeq(inp.lines, IsRow)
Malformed(l) ==
    \/ Strip(l.name) = ""
    \/ Strip(l.id) = ""
    \/ ~IsIntText(Strip(l.id))
InputMalformed(inp) ==
    \/ ~HeaderOk(inp.header)
    \/ \E k \in DOMAIN DataRows(inp) : Malformed(DataRows(inp)[k])

RECURSIVE Concat(_)
Concat(ss) == IF ss = <<>> THEN <<>> ELSE Head(ss) \o Concat(Tail(ss))

\* C11: when run_csv returns, one fetch was made per data row of the input, in
\* input order and for that row's organism id; the output holds the header
\* first and exactly once, followed by the rows of each fetch in the order
\* returned, the fetches in input order.
C11_RowsInInputOrder ==
    rpc = "done" =>
        LET data == DataRows(input_csv)
        IN  /\ Len(fetched) = Len(data)
            /\ \A k \in DOMAIN fetched : \A j \in DOMAIN fetched[k] :
                  fetched[k][j].organism_id = IntOf(Strip(data[k].id))
            /\ out_file.opened
            /\ out_file.records =
                  <<OutputHeader>> \o
                  Concat([k \in DOMAIN fetched |->
                             [j \in DOMAIN fetched[k] |-> FormatRow(fetched[k][j])]])
            /\ Cardinality({i \in DOMAIN out_file.records :
                               out_file.records[i] = OutputHeader}) = 1

\* a run over two different organisms with two features each has returned
C11_Witness ==
    /\ rpc = "done"
    /\ Len(organisms) = 2
    /\ organisms[1].organism_id # organisms[2].organism_id
    /\ Len(fetched[1]) = 2
    /\ Len(fetched[2]) = 2
    /\ fetched[1][1].fetched_object # fetched[1][2].fetched_object

CsvHasUnknownId ==
    /\ csv_source_ids.given
    /\ \E k \in DOMAIN csv_source_ids.ids : csv_source_ids.ids[k] \notin RegistryKeys

\* C13 as stated: a run over a well-formed input with an unregistered source
\* id fails and writes no data row, whatever the number of organisms.
C13_UnknownSourceFailsRun ==
    (rpc \in {"done", "raised"} /\ ~InputMalformed(input_csv) /\ CsvHasUnknownId) =>
        /\ rpc = "raised"
        /\ Len(out_file.records) <= 1

\* the records written for the fetches that returned, in order
RecordsOf(fs) ==
    Concat([k \in DOMAIN fs |-> [j \in DOMAIN fs[k] |-> FormatRow(fs[k][j])]])

\* C25: when the fetch of the k-th organism raises, run_csv raises that
\* exception, no later organism is fetched, and the output holds the header
\* and the complete row sets of organisms 1..k-1 in input order, with no row
\* of the k-th fetch; at termination the output is whole row sets of a prefix
\* of the organisms.
C25_WholeRowSetsOfPrefix ==
    /\ (rpc \in {"done", "raised"} /\ out_file.opened) =>
          /\ Len(fetched) <= Len(organisms)
          /\ out_file.records = <<OutputHeader>> \o RecordsOf(fetched)
    /\ (rpc = "raised" /\ out_file.opened) =>
          /\ fpc = "raised"
          /\ rerror = Propagated(ferror)
          /\ oi <= Len(organisms)
          /\ Len(fetched) = oi - 1
          /\ organism_id = organisms[oi].organism_id
          /\ \A k \in DOMAIN fetched : \A j \in DOMAIN fetched[k] :
                fetched[k][j].organism_id = organisms[k].organism_id

\* the fetch of the second organism raised at its second feature: the two rows
\* of the first organism are in the output, the row already fetched for the
\* second is not
C25_Witness ==
    /\ rpc = "raised"
    /\ oi = 2
    /\ Len(organisms) = 2
    /\ organisms[1].organism_id # organisms[2].organism_id
    /\ Len(fetched[1]) = 2
    /\ Len(rows) = 1
    /\ Len(out_file.records) = 3

----------------------------------------------------------------------------
\* FeatureMetadataService on any definition file, valid or not

\* source ids and descriptions an entry of a definition may carry
DefinitionSources == {SOURCE_REGISTRY[1], SOURCE_REGISTRY[2], "not_a_real_source"}
DefinitionDescriptions == {"d", "", Absent}

\* the definitions: entry i has feature_id i
Definitions ==
    UNION { [1..n -> { [feature_id |-> 0, source_id |-> src, description |-> d] :
                          src \in DefinitionSources, d \in DefinitionDescriptions }] :
            n \in 0..MaxDefinition }
Numbered(defn) == [i \in DOMAIN defn |-> [defn[i] EXCEPT !.feature_id = i]]

NoCall == [op |-> "none", source_id |-> ""]
NoOutput == [ok |-> FALSE, features |-> <<>>]

InitCat ==
    /\ feature_dicts \in {Numbered(defn) : defn \in Definitions}
    /\ cat_op = NoCall
    /\ cat_out = NoOutput

\* a call of get_all_feature_metadata()
GetAll ==
    /\ cat_op' = [op |-> "get_all_feature_metadata", source_id |-> ""]
    /\ cat_out' = get_all_feature_metadata(feature_dicts)
    /\ UNCHANGED feature_dicts
    /\ UNCHANGED notCat

\* a call of get_feature_metadata_by_source(source_id)
GetBySource(source_id) ==
    /\ cat_op' = [op |-> "get_feature_metadata_by_source", source_id |-> source_id]
    /\ cat_out' = get_feature_metadata_by_source(feature_dicts, source_id)
    /\ UNCHANGED feature_dicts
    /\ UNCHANGED notCat

NextCat ==
    \/ GetAll
    \/ \E source_id \in RegistryKeys \cup UnknownIds : GetBySource(source_id)

StartCat == InitCat /\ ParkRL /\ ParkCL /\ ParkRT /\ ParkFP /\ ParkCsv /\ ParkCfg /\ ParkAd /\ ParkJs /\ ParkLim /\ ParkRd /\ ParkFr /\ ParkRq /\ ParkAt
SpecCatalog == StartCat /\ [][NextCat]_vars

Called == cat_op # NoCall
ValidDefinition == \A i \in DOMAIN feature_dicts : feature_dicts[i].description \notin {Absent, ""}
MatchingEntries(source_id) ==
    {i \in DOMAIN feature_dicts : feature_dicts[i].source_id = source_id}

\* C14: with a definition that has an entry whose description is missing or
\* empty, every call of get_all_feature_metadata and of
\* get_feature_metadata_by_source, for whichever source id, raises and
\* delivers no entry.
C14_InvalidEntryFailsLoad ==
    (Called /\ ~ValidDefinition) =>
        /\ ~cat_out.ok
        /\ cat_out.features = <<>>

\* a lookup by a source whose own entries are all valid failed because an
\* entry of another source lacks its description
C14_Witness ==
    /\ cat_op.op = "get_feature_metadata_by_source"
    /\ MatchingEntries(cat_op.source_id) # {}
    /\ \A i \in MatchingEntries(cat_op.source_id) : feature_dicts[i].description = "d"
    /\ \E i \in DOMAIN feature_dicts : feature_dicts[i].description = Absent
    /\ ~cat_out.ok

\* C15: with a valid definition, get_feature_metadata_by_source(s) returns the
\* entries whose source_id is s and no other, each once, in declaration order;
\* when no entry matches, s registered or not, it returns the empty list.
C15_BySourceOrderedSubset ==
    (cat_op.op = "get_feature_metadata_by_source" /\ ValidDefinition) =>
        LET out == cat_out.features
            matching == MatchingEntries(cat_op.source_id)
        IN  /\ cat_out.ok
            /\ Len(out) = Cardinality(matching)
            /\ \A i \in DOMAIN out : out[i] \in {feature_dicts[j] : j \in matching}
            /\ \A i, j \in DOMAIN out : i < j => out[i].feature_id < out[j].feature_id
            /\ (matching = {} => out = <<>>)

\* a lookup returned two entries of its source that an entry of another source
\* separates in the definition
C15_Witness ==
    /\ cat_op.op = "get_feature_metadata_by_source"
    /\ cat_out.ok
    /\ Len(cat_out.features) = 2
    /\ Len(feature_dicts) = 3
    /\ feature_dicts[2].source_id # cat_op.source_id

\* C16 as stated: every entry of a definition that loads has a non-empty
\* description and a source_id that is a key of SOURCE_REGISTRY.
C16_LoadedEntriesRegistered ==
    (cat_op.op = "get_all_feature_metadata" /\ cat_out.ok) =>
        \A i \in DOMAIN cat_out.features :
            /\ cat_out.features[i].description \notin {Absent, ""}
            /\ cat_out.features[i].source_id \in RegistryKeys

----------------------------------------------------------------------------
\* Construction of the adapters' clients at import, and the requests they send

\* from organism_tractability.sources.<x> import <x>, in the order of
\* pipeline.py lines 8-12; each module builds its client at import (_client = ...)
ImportOrder == <<"atcc", "exa_answer", "ncbi", "nih_reporter", "protocols_io">>

EnvNames ==
    {"FIRECRAWL_API_KEY", "EXA_API_KEY", "NCBI_API_KEY", "NCBI_API_EMAIL",
     "PROTOCOLS_IO_API_CLIENT_ACCESS_TOKEN"}

\* the environment variables a source's client reads in its constructor
ReadEnv(s) ==
    CASE s = "atcc"         -> {"FIRECRAWL_API_KEY"}
      [] s = "exa_answer"   -> {"EXA_API_KEY"}
      [] s = "ncbi"         -> {"NCBI_API_KEY", "NCBI_API_EMAIL"}
      [] s = "protocols_io" -> {"PROTOCOLS_IO_API_CLIENT_ACCESS_TOKEN"}
      [] OTHER              -> {}

\* those of them the constructor checks with `if not ...: raise ValueError`;
\* ExaClient.__init__ stores os.environ.get("EXA_API_KEY") unchecked
CheckedEnv(s) == IF s = "exa_answer" THEN {} ELSE ReadEnv(s)

NoConfigError == [type |-> "none", source |-> "", phase |-> "none"]

InitCfg ==
    /\ environ \in SUBSET EnvNames
    /\ imported = 0
    /\ gpc = "importing"
    /\ gerror = NoConfigError
    /\ sent = <<>>

\* the next adapter module is imported: its client is constructed, and the
\* constructor raises ValueError when a variable it checks is not set
ImportAdapter ==
    /\ gpc = "importing"
    /\ LET s == ImportOrder[imported + 1]
       IN  IF CheckedEnv(s) \subseteq environ
              THEN /\ imported' = imported + 1
                   /\ gpc' = IF imported + 1 = Len(ImportOrder) THEN "ready" ELSE "importing"
                   /\ gerror' = gerror
              ELSE /\ gerror' = [type |-> "ValueError", source |-> s,
                                 phase |-> "construction"]
                   /\ gpc' = "failed"
                   /\ imported' = imported
    /\ UNCHANGED <<environ, sent>>
    /\ UNCHANGED notCfg

\* during a batch, the adapter of source s sends its outbound request, with
\* the credentials its client holds
SendRequest(s) ==
    /\ gpc = "ready"
    /\ Len(sent) < MaxRequests
    /\ sent' = Append(sent, [source |-> s, credentials |-> ReadEnv(s) \subseteq environ])
    /\ UNCHANGED <<environ, imported, gpc, gerror>>
    /\ UNCHANGED notCfg

\* the remote service refuses the latest request because it carries no
\* credentials (401/403): the HTTPError leaves the adapter and ends the batch
RejectRequest ==
    /\ gpc = "ready"
    /\ sent # <<>>
    /\ ~sent[Len(sent)].credentials
    /\ gerror' = [type |-> "HTTPError", source |-> sent[Len(sent)].source,
                  phase |-> "request"]
    /\ gpc' = "failed"
    /\ UNCHANGED <<environ, imported, sent>>
    /\ UNCHANGED notCfg

NextCfg ==
    \/ ImportAdapter
    \/ \E s \in RegistryKeys : SendRequest(s)
    \/ RejectRequest

StartCfg == InitCfg /\ ParkRL /\ ParkCL /\ ParkRT /\ ParkFP /\ ParkCsv /\ ParkCat /\ ParkAd /\ ParkJs /\ ParkLim /\ ParkRd /\ ParkFr /\ ParkRq /\ ParkAt
SpecConfig == StartCfg /\ [][NextCfg]_vars

\* a source that needs credentials lacks one
MissingCredential == \E s \in RegistryKeys : ~(ReadEnv(s) \subseteq environ)

\* C17 as stated: when a credential of a source is missing, the process fails
\* with an error of a client constructor, no request is ever sent, and no
\* error first appears on a request.
C17_MissingCredentialFailsAtConstruction ==
    MissingCredential =>
        /\ sent = <<>>
        /\ gpc # "ready"
        /\ gerror.phase # "request"

\* C22: one sleep between two consecutive attempts, of a delay within
\* [min_wait, max_wait] whatever the attempt number; no sleep before the first
\* attempt, after a success, or after the final failed attempt.
C22_SleepBetweenAttemptsOnly ==
    /\ \A i \in DOMAIN sleeps : min_wait <= sleeps[i] /\ sleeps[i] <= max_wait
    /\ tpc = "attempt" => Len(sleeps) = Len(history)
    /\ tpc = "sleep" => Len(sleeps) = Len(history) - 1
    /\ Finished => Len(sleeps) = Len(history) - 1

\* three attempts were made with two sleeps between them, the second longer
\* than min_wait, and the last failure was raised without a further sleep
C22_Witness ==
    /\ tpc = "raised"
    /\ Len(history) = 3
    /\ Len(sleeps) = 2
    /\ sleeps[2] > min_wait

----------------------------------------------------------------------------
\* An adapter's outbound call: the request, the retry wrapper around it, and
\* what the adapter does with the response

HttpAdapters == {"ncbi", "protocols_io", "nih_reporter", "exa_answer"}

\* behaviours of the remote service, the same on every attempt: it answers
\* well, answers 4xx (not 429), answers a body that does not fit the response
\* model, answers an extraction without data, or never answers
RemoteKinds(s) ==
    {"ok", "http_4xx", "schema_mismatch", "silent"} \cup
    (IF s = "atcc" THEN {"malformed_payload"} ELSE {})
Permanent == {"http_4xx", "schema_mismatch", "malformed_payload"}

\* arguments of @retry_with_backoff at the adapter's outbound call
AdapterMaxAttempts(s) == IF s = "atcc" THEN 4 ELSE 5
AdapterMinWait(s) == IF s = "atcc" THEN 5 ELSE 1
AdapterMaxWait == 60

\* mutant: every adapter retries on any Exception
AdapterRetryOnAnyException(s) == {"Exception"}

\* retry_on: ATCC passes (Exception,), the others take the default
AdapterRetryOn(s) ==
    IF s = "atcc" THEN {"Exception"} ELSE {"RequestException", "HTTPError"}

\* timeout, in seconds, the outbound call is issued with; NoTimeout when the
\* call passes none (requests then waits without limit)
NoTimeout == 0
CallTimeout(s) ==
    CASE s \in {"ncbi", "protocols_io"} -> 30
      [] s = "atcc"                     -> 100
      [] OTHER                          -> NoTimeout

\* what an attempt of the wrapped function ends with, given the answer
WrappedOutcome(s, r) ==
    CASE r = "http_4xx" ->
            IF s = "atcc" THEN "Exception" ELSE "HTTPError"
      [] r = "schema_mismatch" /\ s = "nih_reporter" -> "ValidationError"
      [] r = "schema_mismatch" /\ s = "atcc"         -> "RuntimeError"
      [] r = "malformed_payload"                     -> "FirecrawlExtractionError"
      [] OTHER                                       -> "ok"

\* what the adapter does with the response once the wrapped function has
\* returned it: NCBI, protocols.io and Exa build their result model here
ParsedOutsideWrapper(s) == s \in {"ncbi", "protocols_io", "exa_answer"}
PostProcess(s, r) ==
    IF r = "schema_mismatch" /\ ParsedOutsideWrapper(s) THEN "ValidationError" ELSE "ok"

InitAd ==
    /\ ad_source \in RegistryKeys
    /\ remote \in RemoteKinds(ad_source)
    /\ ad_pc = "ready"
    /\ ad_out = "none"
    /\ max_attempts = AdapterMaxAttempts(ad_source)
    /\ min_wait = AdapterMinWait(ad_source)
    /\ max_wait = AdapterMaxWait
    /\ retry_on = AdapterRetryOn(ad_source)
    /\ script = <<>>
    /\ attempt_number = 1
    /\ tpc = "attempt"
    /\ history = <<>>
    /\ sleeps = <<>>
    /\ tresult = NoResult

\* an attempt starts: the request goes out
IssueRequest ==
    /\ ad_pc = "ready"
    /\ tpc = "attempt"
    /\ attempt_number = Len(script) + 1
    /\ ad_pc' = "in_flight"
    /\ UNCHANGED <<ad_source, remote, ad_out>>
    /\ UNCHANGED rtVars
    /\ UNCHANGED notAd

\* the remote service answers, and the attempt ends with a value or an error
Respond ==
    /\ ad_pc = "in_flight"
    /\ remote # "silent"
    /\ script' = Append(script, WrappedOutcome(ad_source, remote))
    /\ ad_pc' = "ready"
    /\ UNCHANGED <<ad_source, remote, ad_out>>
    /\ UNCHANGED <<max_attempts, min_wait, max_wait, retry_on, attempt_number, tpc,
                   history, sleeps, tresult>>
    /\ UNCHANGED notAd

\* no answer within the timeout of the call: the attempt ends with a timeout
\* error; a call issued without timeout keeps waiting
TimeoutExpires ==
    /\ ad_pc = "in_flight"
    /\ remote = "silent"
    /\ CallTimeout(ad_source) # NoTimeout
    /\ script' = Append(script, "Timeout")
    /\ ad_pc' = "ready"
    /\ UNCHANGED <<ad_source, remote, ad_out>>
    /\ UNCHANGED <<max_attempts, min_wait, max_wait, retry_on, attempt_number, tpc,
                   history, sleeps, tresult>>
    /\ UNCHANGED notAd

\* the wrapped function returned the response: the adapter builds its result,
\* or raises when the response does not fit
BuildResult ==
    /\ ad_pc = "ready"
    /\ tpc = "returned"
    /\ ad_out' = PostProcess(ad_source, remote)
    /\ ad_pc' = IF PostProcess(ad_source, remote) = "ok" THEN "returned" ELSE "raised"
    /\ UNCHANGED <<ad_source, remote>>
    /\ UNCHANGED rtVars
    /\ UNCHANGED notAd

\* the wrapped function raised: the error leaves the adapter
Surface ==
    /\ ad_pc = "ready"
    /\ tpc = "raised"
    /\ ad_out' = tresult.type
    /\ ad_pc' = "raised"
    /\ UNCHANGED <<ad_source, remote>>
    /\ UNCHANGED rtVars
    /\ UNCHANGED notAd

NextAd ==
    \/ IssueRequest
    \/ Respond
    \/ TimeoutExpires
    \/ Attempt
    \/ Backoff
    \/ BuildResult
    \/ Surface

StartAd == InitAd /\ ParkRL /\ ParkCL /\ ParkFP /\ ParkCsv /\ ParkCat /\ ParkCfg /\ ParkJs /\ ParkLim /\ ParkRd /\ ParkFr /\ ParkRq /\ ParkAt
SpecAdapter == StartAd /\ [][NextAd]_vars

AdapterOver == ad_pc \in {"returned", "raised"}

C19_EveryCallHasTimeout ==
    ad_pc = "in_flight" => CallTimeout(ad_source) # NoTimeout

----------------------------------------------------------------------------
\* The fetched_object field: json.dumps(..., sort_keys=True) and its reading

\* JSON values: an integer or a map. A map is a Python dict: its items in
\* insertion order, keys distinct.
IntV(n) == [t |-> "int", n |-> n, m |-> <<>>]
MapV(items) == [t |-> "map", n |-> 0, m |-> items]
Item(k, v) == [k |-> k, v |-> v]

\* the keys tried, in the order Python compares them
KeyOrder == <<"a", "b">>
JsonKeys == Range(KeyOrder)
KeyPos(k) == CHOOSE i \in DOMAIN KeyOrder : KeyOrder[i] = k

DistinctKeys(items) ==
    \A i, j \in DOMAIN items : items[i].k = items[j].k => i = j

\* the dicts over the given values
MapsOver(vals) ==
    { MapV(items) : items \in
        { s \in UNION { [1..n -> [k : JsonKeys, v : vals]] : n \in 0..Len(KeyOrder) } :
            DistinctKeys(s) } }

JsonInts == {IntV(n) : n \in 1..MaxJsonInt}
FlatMaps == MapsOver(JsonInts)
\* the maps tried as fetched_object: values are integers or maps of integers
JsonMaps == MapsOver(JsonInts \cup FlatMaps)

HasKey(items, k) == \E i \in DOMAIN items : items[i].k = k
Lookup(items, k) == items[CHOOSE i \in DOMAIN items : items[i].k = k].v

\* dict.__eq__: the same keys with equal values, whatever the insertion order
RECURSIVE ValueEqual(_, _)
ValueEqual(x, y) ==
    IF x.t = "int" \/ y.t = "int"
       THEN x = y
       ELSE /\ \A k \in JsonKeys : HasKey(x.m, k) <=> HasKey(y.m, k)
            /\ \A k \in JsonKeys :
                  HasKey(x.m, k) => ValueEqual(Lookup(x.m, k), Lookup(y.m, k))

\* mutant: sort_keys=False, the items are written in insertion order
ItemsToWriteUnsorted(items) == items

\* sort_keys=True: the encoder iterates over sorted(dct.items())
ItemsToWrite(items) ==
    LET present == SelectSeq(KeyOrder, LAMBDA k : HasKey(items, k))
    IN  [j \in 1..Len(present) |-> Item(present[j], Lookup(items, present[j]))]

\* json.dumps: the text, as its list of tokens
RECURSIVE json_dumps(_), DumpItems(_, _)
json_dumps(v) ==
    IF v.t = "int"
       THEN <<ToString(v.n)>>
       ELSE <<"{">> \o DumpItems(ItemsToWrite(v.m), 1) \o <<"}">>
DumpItems(items, i) ==
    IF i > Len(items) THEN <<>>
    ELSE (IF i > 1 THEN <<",">> ELSE <<>>)
         \o <<items[i].k, ":">> \o json_dumps(items[i].v) \o DumpItems(items, i + 1)

\* json.loads on such a text: the value that starts at token i and the index
\* after it; a dict gets its items in the order of the text
IntOfToken(tok) == CHOOSE n \in 1..MaxJsonInt : ToString(n) = tok
RECURSIVE ParseValue(_, _), ParseItems(_, _, _)
ParseValue(toks, i) ==
    IF toks[i] = "{"
       THEN ParseItems(toks, i + 1, <<>>)
       ELSE [val |-> IntV(IntOfToken(toks[i])), next |-> i + 1]
ParseItems(toks, i, acc) ==
    IF toks[i] = "}" THEN [val |-> MapV(acc), next |-> i + 1]
    ELSE IF toks[i] = "," THEN ParseItems(toks, i + 1, acc)
    ELSE LET r == ParseValue(toks, i + 2)
         IN  ParseItems(toks, r.next, Append(acc, Item(toks[i], r.val)))
json_loads(toks) == ParseValue(toks, 1).val

InitJs ==
    /\ jobj \in JsonMaps
    /\ jother \in {m \in JsonMaps : ValueEqual(m, jobj)}
    /\ jtext = <<>>
    /\ jparsed = <<>>
    /\ jpc = "row"

\* writer.writerow for the two rows: each fetched_object goes through json.dumps
WriteRow ==
    /\ jpc = "row"
    /\ jtext' = <<json_dumps(jobj), json_dumps(jother)>>
    /\ jpc' = "written"
    /\ UNCHANGED <<jobj, jother, jparsed>>
    /\ UNCHANGED notJs

\* a reader of the output parses the field of the first row
ParseField ==
    /\ jpc = "written"
    /\ jparsed' = json_loads(jtext[1])
    /\ jpc' = "parsed"
    /\ UNCHANGED <<jobj, jother, jtext>>
    /\ UNCHANGED notJs

NextJs ==
    \/ WriteRow
    \/ ParseField

StartJs == InitJs /\ ParkRL /\ ParkCL /\ ParkRT /\ ParkFP /\ ParkCsv /\ ParkCat /\ ParkCfg /\ ParkAd /\ ParkLim /\ ParkRd /\ ParkFr /\ ParkRq /\ ParkAt
SpecJson == StartJs /\ [][NextJs]_vars

\* the keys of a map are in sorted order, in it and in every map inside it
RECURSIVE SortedAtEveryLevel(_)
SortedAtEveryLevel(v) ==
    v.t = "map" =>
        /\ \A i, j \in DOMAIN v.m : i < j => KeyPos(v.m[i].k) < KeyPos(v.m[j].k)
        /\ \A i \in DOMAIN v.m : SortedAtEveryLevel(v.m[i].v)

\* C21: the fetched_object field written for a map has its keys in sorted order
\* at every nesting level, parses back to a map value-equal to the original,
\* and is the same text for two value-equal maps.
C21_CanonicalJsonRoundTrip ==
    /\ jpc \in {"written", "parsed"} => jtext[1] = jtext[2]
    /\ jpc = "parsed" =>
          /\ SortedAtEveryLevel(jparsed)
          /\ ValueEqual(jparsed, jobj)

\* {"b": 1, "a": 2} was written as {"a": 2, "b": 1} and read back
C21_Witness ==
    /\ jpc = "parsed"
    /\ jobj = MapV(<<Item("b", IntV(1)), Item("a", IntV(2))>>)
    /\ jtext[1] = <<"{", "a", ":", "2", ",", "b", ":", "1", "}">>
    /\ jparsed = MapV(<<Item("a", IntV(2)), Item("b", IntV(1))>>)

----------------------------------------------------------------------------
\* Construction of limiters with any argument

LimiterArgs == (0 - MaxLimiterArg)..MaxLimiterArg

InitLim ==
    /\ limiters = <<>>
    /\ lim_errors = <<>>

\* the instance a constructor call returned, and the exception one raised
Instance(kind, arg, r) == [kind |-> kind, arg |-> arg, obj |-> r.obj]
Rejection(kind, arg, r) == [kind |-> kind, arg |-> arg, type |-> r.error]

\* RateLimiter(cps) is called: the instance is kept, or the exception recorded
NewRateLimiter ==
    /\ Len(limiters) + Len(lim_errors) < MaxLimiters
    /\ \E cps \in LimiterArgs :
          LET r == RateLimiterNew(cps)
          IN  IF r.ok
                 THEN /\ limiters' = Append(limiters, Instance("RateLimiter", cps, r))
                      /\ UNCHANGED lim_errors
                 ELSE /\ lim_errors' = Append(lim_errors, Rejection("RateLimiter", cps, r))
                      /\ UNCHANGED limiters
    /\ UNCHANGED notLim

\* ConcurrencyLimiter(k) is called: the instance is kept, or the exception
\* recorded
NewConcurrencyLimiter ==
    /\ Len(limiters) + Len(lim_errors) < MaxLimiters
    /\ \E k \in LimiterArgs :
          LET r == ConcurrencyLimiterNew(k)
          IN  IF r.ok
                 THEN /\ limiters' = Append(limiters, Instance("ConcurrencyLimiter", k, r))
                      /\ UNCHANGED lim_errors
                 ELSE /\ lim_errors' = Append(lim_errors,
                                               Rejection("ConcurrencyLimiter", k, r))
                      /\ UNCHANGED limiters
    /\ UNCHANGED notLim

NextLim ==
    \/ NewRateLimiter
    \/ NewConcurrencyLimiter

StartLim == InitLim /\ ParkRL /\ ParkCL /\ ParkRT /\ ParkFP /\ ParkCsv /\ ParkCat /\ ParkCfg /\ ParkAd /\ ParkJs /\ ParkRd /\ ParkFr /\ ParkRq /\ ParkAt
SpecLimiters == StartLim /\ [][NextLim]_vars

\* C23: no limiter instance has a non-positive rate or pool size; every
\* constructor call with a non-positive argument raised ValueError, and no call
\* with a positive argument raised.
C23_NonPositiveRejected ==
    /\ \A i \in DOMAIN limiters : limiters[i].arg > 0
    /\ \A i \in DOMAIN lim_errors :
          lim_errors[i].arg <= 0 /\ lim_errors[i].type = "ValueError"

\* RateLimiter(0) and ConcurrencyLimiter(0) were both called and both raised
C23_Witness ==
    /\ limiters = <<>>
    /\ \E i \in DOMAIN lim_errors :
          lim_errors[i].kind = "RateLimiter" /\ lim_errors[i].arg = 0
    /\ \E i \in DOMAIN lim_errors :
          lim_errors[i].kind = "ConcurrencyLimiter" /\ lim_errors[i].arg = 0

----------------------------------------------------------------------------
\* Catalog lookups of one process while the definition file can be rewritten

\* contents feature_metadata.yaml can have: definitions that load
FileContents == CsvCatalogs

InitRd ==
    /\ feature_dicts \in FileContents
    /\ cat_op = NoCall
    /\ cat_out = NoOutput
    /\ cat_log = <<>>

\* get_feature_metadata_by_source(source_id): get_all_feature_metadata() opens
\* and parses the definition file for this call (_load_yaml), then filters
LookupBySource(source_id) ==
    /\ Len(cat_log) < MaxLookups
    /\ LET out == get_feature_metadata_by_source(feature_dicts, source_id)
       IN  /\ cat_op' = [op |-> "get_feature_metadata_by_source", source_id |-> source_id]
           /\ cat_out' = out
           /\ cat_log' = Append(cat_log, [source_id |-> source_id, out |-> out])
    /\ UNCHANGED feature_dicts
    /\ UNCHANGED notRd

\* the definition file is rewritten on disk while the process runs
RewriteDefinition ==
    /\ cat_log # <<>>
    /\ Len(cat_log) < MaxLookups
    /\ \E c \in FileContents \ {feature_dicts} : feature_dicts' = c
    /\ UNCHANGED <<cat_op, cat_out, cat_log>>
    /\ UNCHANGED notRd

NextRd ==
    \/ \E source_id \in RegistryKeys \cup UnknownIds : LookupBySource(source_id)
    \/ RewriteDefinition

StartRd == InitRd /\ ParkRL /\ ParkCL /\ ParkRT /\ ParkFP /\ ParkCsv /\ ParkCfg /\ ParkAd /\ ParkJs /\ ParkLim /\ ParkFr /\ ParkRq /\ ParkAt
SpecCatalogReload == StartRd /\ [][NextRd]_vars

\* C24 as stated: the catalog is loaded once, so any two lookups of one
\* process with the same source_id return equal sequences.
C24_SameAnswerForSameSource ==
    \A i, j \in DOMAIN cat_log :
        cat_log[i].source_id = cat_log[j].source_id => cat_log[i].out = cat_log[j].out

----------------------------------------------------------------------------
\* fetch_features_for_organism with the retry wrapper inside the adapters

\* a network call that fails k times with a retryable error and then succeeds;
\* with k = n it fails on every attempt
FailThenOk(k, n) == [i \in 1..n |-> IF i <= k THEN "HTTPError" ELSE "ok"]
FailuresOf(sc) == Cardinality({i \in DOMAIN sc : sc[i] # "ok"})

InitFr ==
    /\ InitFPWith(CsvCatalogs)
    /\ ParkRT
    /\ call_scripts = <<>>

FetchCallRetrying ==
    /\ fpc = "idle"
    /\ \E sids \in CsvSourceIdChoices : FetchCallWith(3077, sids)
    /\ UNCHANGED call_scripts

\* no adapter invocation is under way
NoCallUnderWay == Len(call_scripts) = Len(adapterCalls)

\* the loop invokes the adapter of the current feature (lines 179-183): the
\* adapter issues its network call under retry_with_backoff
AdapterStart ==
    /\ fpc = "loop"
    /\ MoreFeatures
    /\ NoCallUnderWay
    /\ LET s == sources_to_process[si]
       IN  /\ max_attempts' = AdapterMaxAttempts(s)
           /\ min_wait' = AdapterMinWait(s)
           /\ max_wait' = AdapterMaxWait
           /\ retry_on' = AdapterRetryOn(s)
           /\ \E k \in 0..AdapterMaxAttempts(s) :
                 /\ script' = FailThenOk(k, AdapterMaxAttempts(s))
                 /\ call_scripts' = Append(call_scripts, FailThenOk(k, AdapterMaxAttempts(s)))
    /\ attempt_number' = 1
    /\ tpc' = "attempt"
    /\ history' = <<>>
    /\ sleeps' = <<>>
    /\ tresult' = NoResult
    /\ UNCHANGED fpVars
    /\ UNCHANGED notFr

\* mutant: after a call that had to be retried, the features of the source are
\* fetched again from the first
AdapterFinishRestart(result) ==
    /\ ~NoCallUnderWay
    /\ tpc \in {"returned", "raised"}
    /\ IF tpc = "returned" /\ Len(history) > 1
          THEN /\ fpc = "loop"
               /\ adapterCalls' = Append(adapterCalls,
                      [source |-> sources_to_process[si],
                       feature_id |-> features_metadata[fi].feature_id,
                       raised |-> FALSE, returned |-> result])
               /\ rows' = Append(rows,
                      [organism_id |-> organism_id,
                       feature_id |-> features_metadata[fi].feature_id,
                       source_id |-> features_metadata[fi].source_id,
                       fetched_object |-> Normalize(result)])
               /\ fi' = 1
               /\ UNCHANGED <<yaml_features, fpc, organism_id, source_ids,
                              sources_to_process, si, features_metadata, retval, ferror,
                              catalogLookups>>
               /\ UNCHANGED notFP
          ELSE InvokeAdapter(tpc = "raised", result)
    /\ UNCHANGED call_scripts

\* the adapter is over: it returns its result and the row is appended, or the
\* error of its last attempt leaves fetch_features_for_organism
AdapterFinish(result) ==
    /\ ~NoCallUnderWay
    /\ tpc \in {"returned", "raised"}
    /\ InvokeAdapter(tpc = "raised", result)
    /\ UNCHANGED call_scripts

FetchReturnRetrying ==
    /\ NoCallUnderWay
    /\ FetchReturn
    /\ UNCHANGED call_scripts

NextFr ==
    \/ FetchCallRetrying
    \/ LookupSource
    \/ AdapterStart
    \/ Attempt
    \/ Backoff
    \/ \E result \in CsvAdapterResults : AdapterFinish(result)
    \/ FetchReturnRetrying

StartFr == InitFr /\ ParkRL /\ ParkCL /\ ParkCsv /\ ParkCat /\ ParkCfg /\ ParkAd /\ ParkJs /\ ParkLim /\ ParkRd /\ ParkRq /\ ParkAt
SpecFetchRetry == StartFr /\ [][NextFr]_vars

\* C26: whatever number of retries the network calls needed, each adapter is
\* invoked once per (source, feature), every row is and stays the one built
\* from the result of its invocation, and when every call succeeds within
\* max_attempts the fetch returns the complete row set.
C26_RetriesPerNetworkCall ==
    /\ \A i, j \in DOMAIN adapterCalls :
          (/\ adapterCalls[i].source = adapterCalls[j].source
           /\ adapterCalls[i].feature_id = adapterCalls[j].feature_id) => i = j
    /\ \A k \in DOMAIN rows :
          /\ rows[k].feature_id = adapterCalls[k].feature_id
          /\ rows[k].source_id = adapterCalls[k].source
          /\ rows[k].fetched_object = Normalize(adapterCalls[k].returned)
    /\ \A k \in DOMAIN adapterCalls :
          adapterCalls[k].raised <=> FailuresOf(call_scripts[k]) = Len(call_scripts[k])
    /\ (/\ FetchOver
        /\ ValidSelection
        /\ \A k \in DOMAIN call_scripts : FailuresOf(call_scripts[k]) < Len(call_scripts[k])) =>
          /\ fpc = "returned"
          /\ Len(retval.rows) = Cardinality(SelectedEntries)
          /\ Len(adapterCalls) = Cardinality(SelectedEntries)

\* a fetch of two features returned both rows; the network call of the second
\* feature failed twice before it succeeded, the first needed no retry
C26_Witness ==
    /\ fpc = "returned"
    /\ Len(retval.rows) = 2
    /\ FailuresOf(call_scripts[1]) = 0
    /\ FailuresOf(call_scripts[2]) = 2
    /\ Len(history) = 3
    /\ retval.rows[1].fetched_object # retval.rows[2].fetched_object

----------------------------------------------------------------------------
\* The HTTP clients: _rate_limiter.wait() and the request, inside the function
\* retry_with_backoff wraps (NCBI, protocols.io, NIH RePORTER, Exa)

InitRq ==
    /\ InitRL
    /\ nreq = [t \in Threads |-> 0]
    /\ tries = [t \in Threads |-> 0]
    /\ rq_pc = [t \in Threads |-> "ready"]
    /\ rq_wake = [t \in Threads |-> 0]
    /\ lastRequest = -1
    /\ minRequestGap = NoGap

\* the threads that issue requests through the client; any other thread
\* stays idle
Requesters == {t \in Threads : t <= 2}

\* an attempt of the wrapped function starts: its first statement is
\* _rate_limiter.wait()
AttemptWait(t) ==
    /\ rq_pc[t] = "ready"
    /\ nreq[t] = wcalls[t]
    /\ CallWait(t)
    /\ UNCHANGED rqVars

\* mutant: wait() is called before the retry loop, re-attempts go out without it
WaitedFirstAttemptOnly(t) == tries[t] > 0 \/ nreq[t] < wcalls[t]

\* the wait() of this attempt has returned and its request is not sent yet
Waited(t) == nreq[t] < wcalls[t]

\* the smallest backoff of the wrapper, min_wait = 1.0 second
MinBackoff == TicksPerSecond

\* requests.get/post and raise_for_status: the request goes out; it succeeds, or
\* fails with a retryable error, after which the wrapper sleeps and re-attempts
\* unless this was attempt max_attempts
HttpAttempt(t, ok) ==
    /\ rq_pc[t] = "ready"
    /\ wpc[t] = "idle"
    /\ Waited(t)
    /\ nreq' = [nreq EXCEPT ![t] = @ + 1]
    /\ lastRequest' = clock
    /\ minRequestGap' = IF lastRequest = -1 THEN minRequestGap
                        ELSE Min(minRequestGap, Min(NoGap, clock - lastRequest))
    /\ IF ok \/ tries[t] + 1 >= AdapterMaxAttempts("ncbi")
          THEN /\ tries' = [tries EXCEPT ![t] = 0]
               /\ UNCHANGED <<rq_pc, rq_wake>>
          ELSE /\ tries' = [tries EXCEPT ![t] = @ + 1]
               /\ rq_pc' = [rq_pc EXCEPT ![t] = "backoff"]
               /\ rq_wake' = [rq_wake EXCEPT ![t] = clock + MinBackoff]
    /\ UNCHANGED rlVars
    /\ UNCHANGED notRq

\* the backoff sleep of the wrapper is over, never before its time has elapsed
BackoffEnds(t) ==
    /\ rq_pc[t] = "backoff"
    /\ clock >= rq_wake[t]
    /\ rq_pc' = [rq_pc EXCEPT ![t] = "ready"]
    /\ UNCHANGED <<nreq, tries, rq_wake, lastRequest, minRequestGap>>
    /\ UNCHANGED rlVars
    /\ UNCHANGED notRq

NextRq ==
    \/ Tick
    \/ \E t \in Requesters : AttemptWait(t)
    \/ \E t \in Threads : AcquireLock(t)
    \/ \E t \in Threads : StartSleep(t)
    \/ \E t \in Threads : SkipSleep(t)
    \/ \E t \in Threads : EndSleep(t)
    \/ \E t \in Threads : Stamp(t)
    \/ \E t \in Threads : ReturnWait(t)
    \/ \E t \in Threads, ok \in BOOLEAN : HttpAttempt(t, ok)
    \/ \E t \in Threads : BackoffEnds(t)

StartRq == InitRq /\ ParkCL /\ ParkRT /\ ParkFP /\ ParkCsv /\ ParkCat /\ ParkCfg /\ ParkAd /\ ParkJs /\ ParkLim /\ ParkRd /\ ParkFr /\ ParkAt
SpecRequests == StartRq /\ [][NextRq]_vars

\* C27 as stated: every request, retries included, follows a wait() of its own
\* on the shared limiter, and any two consecutive requests to the source are at
\* least min_interval apart.
C27_RequestsSpaced ==
    /\ \A t \in Threads : wcalls[t] - nreq[t] \in {0, 1}
    /\ minRequestGap >= min_interval

\* C27 (amended): every request, retries included, follows a wait() of its own
\* on the shared limiter, and the instants at which those wait() calls were
\* granted are at least min_interval apart.
C27_WaitBeforeEveryAttempt ==
    /\ \A t \in Threads : wcalls[t] - nreq[t] \in {0, 1}
    /\ minGrantGap >= min_interval

\* a thread has sent the re-attempt of a failed request, after a second wait()
C27_Witness ==
    \E t \in Threads :
        /\ tries[t] = 2
        /\ nreq[t] = 2
        /\ wcalls[t] = 2
        /\ grants >= 2

----------------------------------------------------------------------------
\* ATCCClient.search_products / get_product: retry_with_backoff around a
\* function that calls FirecrawlClient.extract

InitAt ==
    /\ InitCL
    /\ at_pc = [t \in Workers |-> "idle"]
    /\ at_tries = [t \in Workers |-> 0]
    /\ at_total = [t \in Workers |-> 0]

\* a worker calls search_products or get_product: the first attempt is due
AtccCall(t) ==
    /\ at_pc[t] \in {"idle", "returned"}
    /\ cpc[t] = "idle"
    /\ ccalls < MaxExtractCalls
    /\ at_pc' = [at_pc EXCEPT ![t] = "attempt"]
    /\ at_tries' = [at_tries EXCEPT ![t] = 0]
    /\ outcome' = [outcome EXCEPT ![t] = "none"]
    /\ UNCHANGED at_total
    /\ UNCHANGED <<max_concurrent, semaphore, cpc, exc, ccalls, acquired, released>>
    /\ UNCHANGED notAt

\* the attempt runs the wrapped function, which calls firecrawl_client.extract
AtccExtract(t) ==
    /\ at_pc[t] = "attempt"
    /\ outcome[t] = "none"
    /\ CallExtract(t)
    /\ UNCHANGED atVars

\* extract is over: the wrapped function validates the data and returns, or an
\* exception leaves it; tenacity returns the value, sleeps before another
\* attempt, or re-raises after max_attempts attempts
AttemptEnds(t, valid) ==
    /\ at_pc[t] = "attempt"
    /\ cpc[t] = "idle"
    /\ outcome[t] # "none"
    /\ LET e == IF outcome[t] = "returned"
                   THEN (IF valid THEN "ok" ELSE "RuntimeError")
                   ELSE outcome[t]
       IN  at_pc' = [at_pc EXCEPT ![t] =
               IF e = "ok" THEN "returned"
               ELSE IF ~IsInstance(e, AdapterRetryOn("atcc")) THEN "raised"
               ELSE IF at_tries[t] + 1 >= AdapterMaxAttempts("atcc") THEN "raised"
               ELSE "backoff"]
    /\ at_tries' = [at_tries EXCEPT ![t] = @ + 1]
    /\ at_total' = [at_total EXCEPT ![t] = @ + 1]
    /\ outcome' = [outcome EXCEPT ![t] = "none"]
    /\ UNCHANGED <<max_concurrent, semaphore, cpc, exc, ccalls, acquired, released>>
    /\ UNCHANGED notAt

\* the backoff sleep between two attempts is over
AtccBackoffEnds(t) ==
    /\ at_pc[t] = "backoff"
    /\ at_pc' = [at_pc EXCEPT ![t] = "attempt"]
    /\ UNCHANGED <<at_tries, at_total>>
    /\ UNCHANGED clVars
    /\ UNCHANGED notAt

\* the workers that call the ATCC client
AtccCallers == {t \in Workers : t <= 2}

NextAt ==
    \/ \E t \in AtccCallers : AtccCall(t)
    \/ \E t \in Workers : AtccExtract(t)
    \/ \E t \in Workers : Enter(t)
    \/ \E t \in Workers, r \in AppResults : ExtractBody(t, r)
    \/ \E t \in Workers : Exit(t)
    \/ \E t \in Workers, valid \in BOOLEAN : AttemptEnds(t, valid)
    \/ \E t \in Workers : AtccBackoffEnds(t)

StartAt == InitAt /\ ParkRL /\ ParkRT /\ ParkFP /\ ParkCsv /\ ParkCat /\ ParkCfg /\ ParkAd /\ ParkJs /\ ParkLim /\ ParkRd /\ ParkFr /\ ParkRq
SpecAtcc == StartAt /\ [][NextAt]_vars

RECURSIVE SumUpTo(_, _)
SumUpTo(f, n) == IF n = 0 THEN 0 ELSE f[n] + SumUpTo(f, n - 1)
\* attempts whose extract is over
AttemptsOver ==
    SumUpTo(at_total, NumWorkers)
    + Cardinality({t \in Workers : at_pc[t] = "attempt" /\ cpc[t] = "idle"
                                      /\ outcome[t] # "none"})

\* C28: a worker in the backoff sleep between two attempts holds no slot; no
\* attempt, failed or not, leaves a slot held; and a slot has been acquired and
\* released once for every attempt that is over.
C28_NoSlotHeldWhileSleeping ==
    /\ \A t \in Workers : at_pc[t] = "backoff" => (t \notin Inside /\ cpc[t] = "idle")
    /\ Cardinality(Inside) + semaphore = max_concurrent
    /\ released = AttemptsOver
    /\ acquired = AttemptsOver + Cardinality(Inside)

\* a worker sleeps after its second failed attempt while every slot is free
C28_Witness ==
    /\ semaphore = max_concurrent
    /\ \E t \in Workers : at_pc[t] = "backoff" /\ at_tries[t] = 2
    /\ released = 2

----------------------------------------------------------------------------
\* fetch_features_for_organism with repeated ids or an empty list as source_ids

\* invocations of the adapter of source s for feature f, and rows of that pair
InvocationsOf(s, f) ==
    {k \in DOMAIN adapterCalls : adapterCalls[k].source = s /\ adapterCalls[k].feature_id = f}
RowsOf(s, f) ==
    {k \in DOMAIN rows : rows[k].source_id = s /\ rows[k].feature_id = f}

\* C29: a call that lists valid source ids and returns has invoked the adapter
\* once and produced one row for every feature of a listed source, however often
\* the source is listed; an empty list invokes no adapter and returns no rows.
C29_ListedSourceProcessedOnce ==
    (fpc = "returned" /\ source_ids.given) =>
        /\ \A j \in SelectedEntries :
              /\ Cardinality(InvocationsOf(yaml_features[j].source_id, j)) = 1
              /\ Cardinality(RowsOf(yaml_features[j].source_id, j)) = 1
        /\ Len(adapterCalls) = Cardinality(SelectedEntries)
        /\ Len(rows) = Cardinality(SelectedEntries)
        /\ source_ids.ids = <<>> =>
              (adapterCalls = <<>> /\ catalogLookups = <<>> /\ retval = Returned(<<>>))

\* a call that lists one source twice has returned the rows of its two features
C29_Witness ==
    /\ fpc = "returned"
    /\ source_ids.given
    /\ Len(source_ids.ids) = 2
    /\ source_ids.ids[1] = source_ids.ids[2]
    /\ Len(rows) = 2
    /\ Len(catalogLookups) = 1

\* a call with the empty list has returned although the catalog is not empty
C29_WitnessEmptyList ==
    /\ fpc = "returned"
    /\ source_ids = Given(<<>>)
    /\ yaml_features # <<>>

----------------------------------------------------------------------------
\* RateLimiter.wait under fair scheduling and an advancing clock

\* the clock advances: up to the horizon on its own, and beyond it for as long
\* as a time.sleep is under way, which ends at a finite time
ClockAdvances ==
    /\ \/ clock < MaxClock
       \/ \E t \in Threads : wpc[t] = "sleeping" /\ clock < wake[t]
    /\ clock' = clock + 1
    /\ UNCHANGED <<min_interval, last_call, lock, wpc, wake, wcalls,
                   wstart, started, grants, minGrantGap, lastReturn,
                   minReturnGap>>
    /\ UNCHANGED notRL

\* the steps of thread t inside wait()
WaitStep(t) ==
    \/ AcquireLock(t)
    \/ StartSleep(t)
    \/ SkipSleep(t)
    \/ EndSleep(t)
    \/ Stamp(t)
    \/ ReturnWait(t)

NextRLFair ==
    \/ ClockAdvances
    \/ \E t \in Requesters : CallWait(t)
    \/ \E t \in Threads : AcquireLock(t)
    \/ \E t \in Threads : StartSleep(t)
    \/ \E t \in Threads : SkipSleep(t)
    \/ \E t \in Threads : EndSleep(t)
    \/ \E t \in Threads : Stamp(t)
    \/ \E t \in Threads : ReturnWait(t)

\* a thread that can take a step of wait() is scheduled in the end, and time
\* passes; nothing obliges a thread to call wait()
SpecRLFair ==
    /\ StartRL
    /\ [][NextRLFair]_vars
    /\ WF_vars(ClockAdvances)
    /\ \A t \in Requesters : WF_vars(WaitStep(t))

\* C30: every call of wait() returns in the end: the calls being finitely many,
\* from some point on no thread is inside wait().
C30_EveryWaitReturns ==
    <>[](\A t \in Threads : wpc[t] = "idle")

\* every call the bound allows has returned, each thread's among them, and one
\* of them slept past the horizon
C30_Witness ==
    /\ started = MaxWaitCalls
    /\ \A t \in Threads : wpc[t] = "idle" /\ wcalls[t] > 0
    /\ grants = MaxWaitCalls
    /\ clock > MaxClock

====
